---- MODULE Spec2Model ----
(***************************************************************************)
(* Software Station: label / themed icon resolution.                       *)
(*                                                                         *)
(* The model covers src/software_station/icons.py (icon cache, resolution  *)
(* chain, sync and async resolve), src/software_station/desktop_index.py   *)
(* (desktop-entry index and its memoized query),                           *)
(* src/software_station/pkg_desktop_map.py (package -> .desktop map) and   *)
(* the public wrappers of src/iconlist.py.                                 *)
(*                                                                         *)
(* Python strings are sequences of atoms ("/", ".desktop", " ", a word),   *)
(* so that basename, split, strip and endswith are computed, not assumed.  *)
(* Python's None is the one-atom string None; "" is the empty sequence.    *)
(*                                                                         *)
(* Granularity: a step holds at most one access to state shared between    *)
(* threads (the memo of an @lru_cache function, _index, _pkg_map, the idle *)
(* queue, the start of a thread); work on a thread's own data runs with    *)
(* the access that follows it. A call of a memoized function is up to      *)
(* three steps: the lookup in its memo, the call of the wrapped function   *)
(* on a miss, and the store of the result, which keeps a key another       *)
(* thread put there in between. A determination                            *)
(* (_resolve_label_and_icon_name_worker) is thus one step per such access; *)
(* the load that ends a synchronous resolve and the GLib.idle_add that     *)
(* ends a worker are steps of their own. init_icon_runtime starts the      *)
(* index build in one step and the package-map build in the next. The      *)
(* index build is one step per descriptor file and per insertion           *)
(* _index[t] = {...}; the package-map build is one step per command        *)
(* result. The build threads and the pool workers interleave between these *)
(* steps, also while the main thread is inside init_icon_runtime or        *)
(* resolve_label_and_icon_sync; the main thread itself runs one call,      *)
(* handler or idle source at a time.                                       *)
(* GLib.KeyFile is the object PyGObject gives: it has load_from_file,      *)
(* has_group and get_string, and no has_key (KeyFileMethods), so a call of *)
(* kf.has_key raises AttributeError.                                       *)
(* The icon theme has lookup_icon_for_scale; an icon file of a theme may   *)
(* be unreadable (Unreadable), and loading it raises.  The legacy XPM      *)
(* provider is not installed.                                              *)
(* lastCall records what the last step was and what it returned; prev,     *)
(* accessors, the fields raised and began of a determination and the field *)
(* ready of a request are history the code does not have.                  *)
(* An external command of the package-map build ends in one of four ways   *)
(* (CmdOutcomes).  desktop_for_pkg and best_guess do not raise as the      *)
(* repository has them; in a run whose mods.raises names one of them (a    *)
(* module put in its place), each call of it may raise or not.  FairSpec   *)
(* is Spec with every started build thread scheduled.  The descriptor      *)
(* files are those of DirListing and KeyFile; userDir tells whether the    *)
(* user's directory exists, pygobject whether gi.repository can be         *)
(* imported when the themed stack cannot.  A scenario names the theme it   *)
(* starts with, the packages its run asks about, whether it makes          *)
(* synchronous resolves, the icon names it loads directly and what its     *)
(* callbacks return.                                                       *)
(***************************************************************************)
EXTENDS Integers, Sequences, FiniteSets, TLC

(***************************************************************************)
(* Bounds of the model.                                                    *)
(***************************************************************************)
\* theme loads (cache misses of _load_icon_pixbuf_main)
MaxLoads == 3
\* calls of init_icon_runtime
MaxInits == 2
\* asynchronous resolve requests submitted
MaxAsync == 2
\* theme-name, monitor and scale-factor events
MaxEvents == 2
\* deliveries of one idle source (a source that keeps returning True)
MaxDeliveries == 2

(***************************************************************************)
(* Strings.                                                                *)
(***************************************************************************)
None == <<"None">>

\* Python truthiness of an optional string: `if s`
Truthy(s) == s # None /\ s # <<>>

IsSpace(a) == a \in {" ", "\t", "\n"}

RECURSIVE LastIndexOf(_, _, _)
LastIndexOf(s, a, i) ==
    IF i = 0 THEN 0
    ELSE IF s[i] = a THEN i ELSE LastIndexOf(s, a, i - 1)

RECURSIVE FirstIndexOf(_, _, _)
FirstIndexOf(s, a, i) ==
    IF i > Len(s) THEN 0
    ELSE IF s[i] = a THEN i ELSE FirstIndexOf(s, a, i + 1)

\* os.path.basename(p): what follows the last "/"
Basename(p) == SubSeq(p, LastIndexOf(p, "/", Len(p)) + 1, Len(p))

\* s.endswith(suffix)
EndsWith(s, suffix) ==
    /\ Len(s) >= Len(suffix)
    /\ SubSeq(s, Len(s) - Len(suffix) + 1, Len(s)) = suffix

\* a in s  (single separator)
Contains(s, a) == FirstIndexOf(s, a, 1) # 0

\* s.split(a, 1)[0]
SplitOnceHead(s, a) ==
    IF Contains(s, a) THEN SubSeq(s, 1, FirstIndexOf(s, a, 1) - 1) ELSE s

RECURSIVE LStrip(_)
LStrip(s) == IF s # <<>> /\ IsSpace(Head(s)) THEN LStrip(Tail(s)) ELSE s

RECURSIVE RStrip(_)
RStrip(s) ==
    IF s # <<>> /\ IsSpace(s[Len(s)]) THEN RStrip(SubSeq(s, 1, Len(s) - 1)) ELSE s

\* s.strip()
Strip(s) == RStrip(LStrip(s))

\* s.split(): the whitespace-separated words of s
RECURSIVE SplitWs(_, _, _)
SplitWs(s, cur, acc) ==
    IF s = <<>>
    THEN IF cur = <<>> THEN acc ELSE Append(acc, cur)
    ELSE IF IsSpace(Head(s))
         THEN SplitWs(Tail(s), <<>>, IF cur = <<>> THEN acc ELSE Append(acc, cur))
         ELSE SplitWs(Tail(s), Append(cur, Head(s)), acc)

Split(s) == SplitWs(s, <<>>, <<>>)

\* s.splitlines()
RECURSIVE SplitLinesAcc(_, _, _)
SplitLinesAcc(s, cur, acc) ==
    IF s = <<>>
    THEN IF cur = <<>> THEN acc ELSE Append(acc, cur)
    ELSE IF Head(s) = "\n"
         THEN SplitLinesAcc(Tail(s), <<>>, Append(acc, cur))
         ELSE SplitLinesAcc(Tail(s), Append(cur, Head(s)), acc)

SplitLines(s) == SplitLinesAcc(s, <<>>, <<>>)

(***************************************************************************)
(* Python dicts: functions whose domain is the set of keys.                *)
(***************************************************************************)
EmptyDict == <<>>

DictPut(d, k, v) == [x \in (DOMAIN d) \cup {k} |-> IF x = k THEN v ELSE d[x]]

\* d.get(k) for a dict of strings
DictGet(d, k) == IF k \in DOMAIN d THEN d[k] ELSE None

(***************************************************************************)
(* accessories_map.py: the curated table (two of its entries).             *)
(***************************************************************************)
NoEntry == [name |-> None, icon |-> None]

ACCESSORIES_MAP ==
    [p \in {<<"vlc">>, <<"htop">>} |->
        IF p = <<"vlc">>
        THEN [name |-> <<"VLC">>, icon |-> <<"vlc">>]
        ELSE [name |-> <<"System", " ", "Monitor">>,
              icon |-> <<"utilities-system-monitor">>]]

\* a variant that does not take the entry's icon
CuratedGetNameOnly(curated_map, pkg_name) ==
    IF pkg_name \in DOMAIN curated_map
    THEN [name |-> curated_map[pkg_name].name, icon |-> None]
    ELSE NoEntry

\* curated_map.get(pkg_name, {}) followed by info.get("name") / info.get("icon")
CuratedGet(curated_map, pkg_name) ==
    IF pkg_name \in DOMAIN curated_map THEN curated_map[pkg_name] ELSE NoEntry

(***************************************************************************)
(* The environment: desktop-entry files on disk, the package database,     *)
(* the icon themes, the locale.                                            *)
(***************************************************************************)
DesktopExt == <<".desktop">>

_DESKTOP_DIRS ==
    << <<"/usr/local/share/applications">>,
       <<"/usr/share/applications">>,
       <<"~/.local/share/applications">> >>

\* whether the user has a ~/.local/share/applications directory
VARIABLE userDir

\* os.path.isdir(base) for a user who has (udir) or has not a
\* ~/.local/share/applications
IsDirFor(base, udir) ==
    \/ base \in { _DESKTOP_DIRS[1], _DESKTOP_DIRS[2] }
    \/ base = _DESKTOP_DIRS[3] /\ udir

\* os.path.isdir(base)
IsDir(base) == IsDirFor(base, userDir)

\* directory listings, in the file system's enumeration order
DirListing(base) ==
    IF base = _DESKTOP_DIRS[1]
    THEN << <<"broken", ".desktop">>, <<"foo-app", ".desktop">>, <<"README">> >>
    ELSE IF base = _DESKTOP_DIRS[2]
    THEN << <<".hidden", ".desktop">>, <<"foo", ".desktop">>, <<"vlc", ".desktop">>,
            <<"bad", ".desktop">> >>
    ELSE IF base = _DESKTOP_DIRS[3]
    THEN << <<"foo", ".desktop">> >>
    ELSE << >>

\* os.path.join(base, name)
PathJoin(base, name) == base \o <<"/">> \o name

\* the name begins with a dot: a hidden file, which glob's * does not match
StartsWithDot(name) ==
    /\ name # <<>>
    /\ Len(Head(name)) > 0
    /\ SubSeq(Head(name), 1, 1) = "."

\* the names that match *suffix, as paths: the name ends in suffix and does
\* not begin with a dot
RECURSIVE SelectSuffix(_, _, _)
SelectSuffix(base, names, suffix) ==
    IF names = <<>> THEN <<>>
    ELSE (IF EndsWith(Head(names), suffix) /\ ~StartsWithDot(Head(names))
          THEN <<PathJoin(base, Head(names))>> ELSE <<>>)
         \o SelectSuffix(base, Tail(names), suffix)

\* glob(os.path.join(base, "*.desktop"))
Glob(base) == SelectSuffix(base, DirListing(base), DesktopExt)

K(s) == <<s>>
LocKey(p) == <<"Name", "[">> \o p \o <<"]">>

\* GLib.KeyFile contents of a path: loads (load_from_file succeeds), the
\* groups, and the keys of group "Desktop Entry".  broken.desktop is no key
\* file: load_from_file raises.  .hidden.desktop is a valid descriptor that
\* the build's glob does not match.
KeyFile(path) ==
    IF path = PathJoin(_DESKTOP_DIRS[1], <<"foo-app", ".desktop">>)
    THEN [loads |-> TRUE, groups |-> {"Desktop Entry"},
          keys |-> [k \in {K("Name"), LocKey(<<"en">>), K("Exec")} |->
                      IF k = K("Name") THEN <<"Foo", " ", "Application">>
                      ELSE IF k = LocKey(<<"en">>) THEN <<"Foo", " ", "App">>
                      ELSE <<"foo-app", " ", "--flag">>]]
    ELSE IF path = PathJoin(_DESKTOP_DIRS[2], <<"foo", ".desktop">>)
    THEN [loads |-> TRUE, groups |-> {"Desktop Entry"},
          keys |-> [k \in {K("Name"), K("Icon"), K("Exec")} |->
                      IF k = K("Name") THEN <<"Foo">>
                      ELSE IF k = K("Icon") THEN <<"foo-icon">>
                      ELSE <<"foo", " ", "--flag">>]]
    ELSE IF path = PathJoin(_DESKTOP_DIRS[2], <<"vlc", ".desktop">>)
    THEN [loads |-> TRUE, groups |-> {"Desktop Entry"},
          keys |-> [k \in {K("Name"), K("Icon"), K("Exec"), K("TryExec")} |->
                      IF k = K("Name") THEN <<"VLC", " ", "media", " ", "player">>
                      ELSE IF k = K("Icon") THEN <<"vlc-icon">>
                      ELSE IF k = K("Exec")
                      THEN <<"/", "usr", "/", "bin", "/", "vlc", " ", "%U">>
                      ELSE <<"/", "usr", "/", "bin", "/", "vlc">>]]
    ELSE IF path = PathJoin(_DESKTOP_DIRS[3], <<"foo", ".desktop">>)
    THEN [loads |-> TRUE, groups |-> {"Desktop Entry"},
          keys |-> [k \in {K("Icon"), K("Exec")} |->
                      IF k = K("Icon") THEN <<"my-foo">>
                      ELSE <<"/", "opt", "/", "foo", " ", "%F">>]]
    ELSE IF path = PathJoin(_DESKTOP_DIRS[2], <<"bad", ".desktop">>)
    THEN [loads |-> TRUE, groups |-> {"Other Group"}, keys |-> EmptyDict]
    ELSE IF path = PathJoin(_DESKTOP_DIRS[2], <<".hidden", ".desktop">>)
    THEN [loads |-> TRUE, groups |-> {"Desktop Entry"},
          keys |-> [k \in {K("Name")} |-> <<"Hidden">>]]
    ELSE [loads |-> FALSE, groups |-> {}, keys |-> EmptyDict]

\* os.environ.get("LC_ALL") or os.environ.get("LANG") or "en_US"
Locale == <<"en", "_", "US", ".", "UTF-8">>

(***************************************************************************)
(* desktop_index.py                                                        *)
(***************************************************************************)
\* the methods of GLib.KeyFile that PyGObject binds, of those the build
\* calls: g_key_file_has_key is left out of the introspection data, so the
\* object has no attribute has_key
KeyFileMethods == {"load_from_file", "has_group", "get_string"}

\* a variant: a KeyFile object that has the method has_key
HasKeyBound(kf, key) == [raises |-> FALSE, value |-> key \in DOMAIN kf.keys]

\* kf.has_key("Desktop Entry", key): whether the call raises (AttributeError,
\* the object has no such method), and the value it returns when it does not
HasKey(kf, key) ==
    IF "has_key" \in KeyFileMethods THEN HasKeyBound(kf, key)
    ELSE [raises |-> TRUE, value |-> FALSE]

\* kf.get_string("Desktop Entry", key)
GetString(kf, key) == kf.keys[key]

\* `kf.get_string(sect, key) if kf.has_key(sect, key) else default`: whether
\* it raises, and its value when it does not
KeyOr(kf, key, default) ==
    LET h == HasKey(kf, key)
    IN  [raises |-> h.raises,
         value |-> IF ~h.raises /\ h.value THEN GetString(kf, key) ELSE default]

\* the probes of _parse_localized_name: the locale, the locale without its
\* encoding, the bare language
Probes(locale) ==
    IF locale = <<>> THEN <<>>
    ELSE <<locale>>
         \o (IF Contains(locale, ".") THEN <<SplitOnceHead(locale, ".")>> ELSE <<>>)
         \o (IF Contains(locale, "_") THEN <<SplitOnceHead(locale, "_")>> ELSE <<>>)

\* `for p in probes: if kf.has_key(sect, key): return kf.get_string(sect, key)`:
\* whether a has_key call raised, whether a probe was found, and its value
RECURSIVE FirstProbe(_, _)
FirstProbe(kf, probes) ==
    IF probes = <<>> THEN [raises |-> FALSE, found |-> FALSE, value |-> None]
    ELSE LET h == HasKey(kf, LocKey(Head(probes)))
         IN  IF h.raises THEN [raises |-> TRUE, found |-> FALSE, value |-> None]
             ELSE IF h.value
                  THEN [raises |-> FALSE, found |-> TRUE,
                        value |-> GetString(kf, LocKey(Head(probes)))]
                  ELSE FirstProbe(kf, Tail(probes))

\* _parse_localized_name(kf, locale): the whole body is in
\* `try: ... except Exception: pass`, followed by `return None`
_parse_localized_name(kf, locale) ==
    LET p == FirstProbe(kf, Probes(locale))
        h == HasKey(kf, K("Name"))
    IN  IF p.raises THEN None
        ELSE IF p.found THEN p.value
        ELSE IF h.raises THEN None
        ELSE IF h.value THEN GetString(kf, K("Name")) ELSE None

\* a record of the index; NoHit stands for "no record" (best_guess's None)
NoHit == [name |-> None, icon |-> None, desktop_id |-> None]
IsHit(hit) == hit.desktop_id # None

\* the token taken from the Exec value: execv.split()[0]
ExecToken(execv) == Split(execv)[1]

\* the token taken from the TryExec value: os.path.basename(tryexec)
TryExecToken(tryexec) == Basename(tryexec)

\* tokens of one descriptor: {did}, plus the Exec and TryExec tokens
Tokens(did, execv, tryexec) ==
    {did}
    \cup (IF execv # <<>> THEN {ExecToken(execv)} ELSE {})
    \cup (IF tryexec # <<>> THEN {TryExecToken(tryexec)} ELSE {})

\* the record built from one descriptor file (lines 68, 69, 72), when none
\* of these lines raises
DescriptorRecord(path, kf) ==
    [name |-> _parse_localized_name(kf, Locale),
     icon |-> KeyOr(kf, K("Icon"), None).value,
     desktop_id |-> Basename(path)]

\* the insertions `for t in toks: _index[t] = rec`
IndexInsertAll(idx, toks, rec) ==
    [t \in (DOMAIN idx) \cup toks |-> IF t \in toks THEN rec ELSE idx[t]]

\* one iteration of `for path in glob(...)`: the index after the last
\* insertion for the file.  The body is in `try: ... except Exception:
\* continue`: a file that does not load, and a file for which one of the
\* lines 69-71 raises, leaves the index as it is.
IndexFile(idx, path) ==
    LET kf == KeyFile(path)
    IN  IF ~kf.loads THEN idx                         \* except Exception: continue
        ELSE IF "Desktop Entry" \notin kf.groups THEN idx    \* continue
        ELSE LET icon == KeyOr(kf, K("Icon"), None)
                 execv == KeyOr(kf, K("Exec"), <<>>)
                 tryexec == KeyOr(kf, K("TryExec"), <<>>)
             IN  IF icon.raises \/ execv.raises \/ tryexec.raises
                 THEN idx                             \* AttributeError: continue
                 ELSE IF execv.value # <<>> /\ Split(execv.value) = <<>>
                 THEN idx                             \* IndexError: continue
                 ELSE IndexInsertAll(idx,
                                     Tokens(Basename(path), execv.value, tryexec.value),
                                     DescriptorRecord(path, kf))

\* every file of the three directories, as a path
AllPaths ==
    UNION {{PathJoin(_DESKTOP_DIRS[b], DirListing(_DESKTOP_DIRS[b])[i]) :
               i \in DOMAIN DirListing(_DESKTOP_DIRS[b])} : b \in DOMAIN _DESKTOP_DIRS}

\* for every file, the tokens under which the loop body inserts (none when
\* the file is skipped) and the record it builds
FileTokens == [path \in AllPaths |-> DOMAIN IndexFile(EmptyDict, path)]
FileRecord == [path \in AllPaths |-> DescriptorRecord(path, KeyFile(path))]

TokensOf(path) == FileTokens[path]
RecordOf(path) == FileRecord[path]

\* the paths the build visits, in order: for base in _DESKTOP_DIRS, skipping
\* what is no directory, for path in glob(base/*.desktop)
RECURSIVE ScanFrom(_, _)
ScanFrom(i, udir) ==
    IF i > Len(_DESKTOP_DIRS) THEN <<>>
    ELSE (IF IsDirFor(_DESKTOP_DIRS[i], udir) THEN Glob(_DESKTOP_DIRS[i]) ELSE <<>>)
         \o ScanFrom(i + 1, udir)

\* ... for a user with and for a user without the directory
ScanWithUserDir == ScanFrom(1, TRUE)
ScanWithoutUserDir == ScanFrom(1, FALSE)

ScanOrder == IF userDir THEN ScanWithUserDir ELSE ScanWithoutUserDir

\* _index.get(token)
IndexGet(idx, token) == IF token \in DOMAIN idx THEN idx[token] ELSE NoHit

\* what one uninterrupted call of best_guess under @lru_cache returns: the
\* memoized answer when the token was asked before, else the index's answer
BestGuessValue(memo, idx, token) ==
    IF token \in DOMAIN memo THEN memo[token] ELSE IndexGet(idx, token)


(***************************************************************************)
(* pkg_desktop_map.py                                                      *)
(***************************************************************************)
\* stdout of `pkg query %n`
PkgQueryOutput == <<"foo", "\n", "htop", "\n">>

\* stdout of `pkg info -l <pkg>`
PkgInfoOutput(pkg) ==
    IF pkg = <<"foo">>
    THEN <<"foo-1.0:", "\n",
           "\t", "/usr/local/bin", "/", "foo", "\n",
           "\t", "/usr/local/share/applications", "/", "foo-app", ".desktop", "\n",
           "\t", "/usr/share/applications", "/", "foo", ".desktop", "\n">>
    ELSE IF pkg = <<"htop">>
    THEN <<"htop-3.2:", "\n", "\t", "/usr/local/bin", "/", "htop", "\n">>
    ELSE <<>>

\* how an external command ends: it exits with status 0, it exits with
\* another status, it cannot be started (subprocess.run raises), it never
\* exits (subprocess.run is called without a timeout and blocks)
CmdOutcomes == {"ok", "nonzero", "missing", "hang"}

\* _run(cmd) when it returns: cp.stdout whatever the exit status is
\* (check=False), "" when subprocess.run raised; stdout is what the command
\* wrote, outcome how it ended
_run(stdout, outcome) == IF outcome \in {"ok", "nonzero"} THEN stdout ELSE <<>>

\* the thread that called _run gets an answer
Returns(outcome) == outcome # "hang"

RECURSIVE FirstDesktopLine(_)
FirstDesktopLine(lines) ==
    IF lines = <<>> THEN None
    ELSE IF Strip(Head(lines)) # <<>> /\ EndsWith(Strip(Head(lines)), DesktopExt)
         THEN Strip(Head(lines))
         ELSE FirstDesktopLine(Tail(lines))

\* a variant that takes the first line whatever it ends in
_process_package_unfiltered(listing) ==
    IF listing = <<>> THEN None ELSE Strip(Head(SplitLines(listing)))

\* _process_package(pkg): the desktop path or None, given the listing
_process_package(listing) ==
    IF listing = <<>> THEN None ELSE FirstDesktopLine(SplitLines(listing))

RECURSIVE NonEmpty(_)
NonEmpty(lines) ==
    IF lines = <<>> THEN <<>>
    ELSE (IF Head(lines) # <<>> THEN <<Head(lines)>> ELSE <<>>) \o NonEmpty(Tail(lines))

\* pkgs = [p for p in pkgs_txt.splitlines() if p]
PkgNames(pkgs_txt) == NonEmpty(SplitLines(pkgs_txt))

\* if desktop_path: _pkg_map[pkg] = desktop_path
PkgMapInsert(pm, pkg, desktop_path) ==
    IF Truthy(desktop_path) THEN DictPut(pm, pkg, desktop_path) ELSE pm

\* desktop_for_pkg(pkg)
desktop_for_pkg(pm, pkg) == DictGet(pm, pkg)

(***************************************************************************)
(* icons.py: the theme, the pixbuf cache                                   *)
(***************************************************************************)
ICON_FALLBACK == <<"package-x-generic">>

Themes == {"Adwaita", "Bare", "Damaged"}

\* the icons the active theme has
ThemeIcons(theme) ==
    IF theme = "Adwaita" THEN {ICON_FALLBACK, <<"vlc">>, <<"my-foo">>}
    ELSE IF theme = "Damaged" THEN {ICON_FALLBACK, <<"vlc">>}
    ELSE {<<"foo-icon">>}

\* the icon files of a theme that cannot be decoded, as <<name, scale>>: the
\* theme Damaged has a vlc icon that is unreadable for every scale and a
\* package-x-generic whose file for scale 2 is unreadable
Unreadable(theme) ==
    IF theme = "Damaged"
    THEN {<<<<"vlc">>, 1>>, <<<<"vlc">>, 2>>, <<ICON_FALLBACK, 2>>}
    ELSE {}

\* a pixbuf object: what it shows and its identity; NonePix is Python's None
NonePix == [theme |-> "", name |-> None, size |-> 0, scale |-> 0, id |-> 0]
Pixbuf(theme, name, size, sc, id) ==
    [theme |-> theme, name |-> name, size |-> size, scale |-> sc, id |-> id]

\* key = ((icon_name or ICON_FALLBACK), size, _scale)
CacheKey(icon_name, size, sc) ==
    <<IF Truthy(icon_name) THEN icon_name ELSE ICON_FALLBACK, size, sc>>

\* _icon_theme.lookup_icon_for_scale(name, size, scale, 0) finds an icon;
\* also _icon_theme.has_icon(name)
ThemeLookup(theme, name) == name \in ThemeIcons(theme)

\* info.load_icon() of the icon found for scale sc raises; also
\* _icon_theme.load_icon(name, size, 0), which loads for scale 1
LoadRaises(theme, name, sc) == <<name, sc>> \in Unreadable(theme)

\* the miss path of _load_icon_pixbuf_main (lines 105-126): the requested
\* name, else the fallback name, loaded for the stored scale; when that load
\* raises, the fallback name loaded by load_icon(ICON_FALLBACK, size, 0),
\* which takes no scale, if the theme has it; None when nothing was found
\* or the last load raises too; id is the identity of the object loaded
LoadFromTheme(theme, icon_name, size, sc, id) ==
    LET name == IF Truthy(icon_name) THEN icon_name ELSE ICON_FALLBACK
        found == IF ThemeLookup(theme, name) THEN name
                 ELSE IF ThemeLookup(theme, ICON_FALLBACK) THEN ICON_FALLBACK
                 ELSE None
    IN  IF found = None THEN NonePix
        ELSE IF ~LoadRaises(theme, found, sc) THEN Pixbuf(theme, found, size, sc, id)
        ELSE IF ThemeLookup(theme, ICON_FALLBACK) /\ ~LoadRaises(theme, ICON_FALLBACK, 1)
        THEN Pixbuf(theme, ICON_FALLBACK, size, 1, id)
        ELSE NonePix

\* number of lookup_icon_for_scale calls of the miss path
LookupCount(theme, icon_name) ==
    IF ThemeLookup(theme, IF Truthy(icon_name) THEN icon_name ELSE ICON_FALLBACK)
    THEN 1 ELSE 2

\* _load_icon_pixbuf_main after its assertions: the value returned
LoadValue(cache, theme, icon_name, size, sc, id) ==
    IF CacheKey(icon_name, size, sc) \in DOMAIN cache
    THEN cache[CacheKey(icon_name, size, sc)]
    ELSE LoadFromTheme(theme, icon_name, size, sc, id)


\* a variant that stores images only, not the absence of one
LoadCacheSkipsAbsent(cache, theme, icon_name, size, sc, id) ==
    IF CacheKey(icon_name, size, sc) \in DOMAIN cache
       \/ LoadFromTheme(theme, icon_name, size, sc, id) = NonePix
    THEN cache
    ELSE DictPut(cache, CacheKey(icon_name, size, sc),
                 LoadFromTheme(theme, icon_name, size, sc, id))

\* ... and the cache it leaves: _pixbuf_cache[key] = pix on a miss
LoadCache(cache, theme, icon_name, size, sc, id) ==
    IF CacheKey(icon_name, size, sc) \in DOMAIN cache
    THEN cache
    ELSE DictPut(cache, CacheKey(icon_name, size, sc),
                 LoadFromTheme(theme, icon_name, size, sc, id))

\* _pixbuf_cache.clear()
ClearCache(cache) == EmptyDict

(***************************************************************************)
(* icons.py: label / icon-name determination                               *)
(***************************************************************************)
\* step 2: `if not friendly: friendly = hit.get("name")`
FillFromHit(current, fromHit) == IF ~Truthy(current) THEN fromHit ELSE current

\* step 3: `if not friendly and name_guess: friendly = name_guess`
FillFromGuess(current, guess) ==
    IF ~Truthy(current) /\ Truthy(guess) THEN guess ELSE current

\* a variant of step 4 that leaves a missing label missing
FallbackLabelMissing(friendly, pkg_name) == friendly

\* step 4: `if not friendly: friendly = pkg_name`
FallbackLabel(friendly, pkg_name) == IF ~Truthy(friendly) THEN pkg_name ELSE friendly

\* the collaborator functions icons.py calls during a determination; in a
\* run those of mods.raises may raise when called (a module whose function
\* of that name does not work as icons.py expects)
Collaborators == {"desktop_for_pkg", "best_guess"}

\* _friendly_name_guess / _icon_name_guess under @lru_cache, called with
\* nothing else running in between: field is "name" or "icon", own is the
\* function's own memo, bg is best_guess's memo, raises tells whether
\* desktop_index.best_guess raises
GuessValue(own, bg, idx, token, field, hasIndex, raises) ==
    IF token \in DOMAIN own THEN own[token]
    ELSE IF ~hasIndex THEN None                    \* if not desktop_index: return None
    ELSE IF raises THEN None                       \* except Exception: return None
    ELSE LET hit == BestGuessValue(bg, idx, token)
         IN  IF IsHit(hit) THEN hit[field] ELSE None

\* a variant of step 2 without the try statement: the exception leaves
\* _resolve_label_and_icon_name_worker
Step2ExceptMissing(raised) == IF raised THEN "Exception" ELSE "ok"

\* step 2 is wrapped in `try: ... except Exception: pass`: when one of its
\* calls raises, nothing of the step is assigned and the function goes on
\* ("ok"); otherwise the exception would leave the function
Step2Except(raised) == "ok"

\* functools.lru_cache, after the wrapped function has returned: the result
\* is stored under the key unless the key came into the memo while the
\* function ran; the call returns its own result either way
MemoStore(own, key, value) ==
    IF key \in DOMAIN own THEN own ELSE DictPut(own, key, value)

\* desktop_index.best_guess(token), one access at a time.  at tells where
\* the call is: "bg_lookup" (lru_cache looks the token up in the memo),
\* "bg_get" (_index.get(token)), "bg_store" (lru_cache stores the result),
\* "done" (it has returned got).  got is the result of _index.get between
\* the read and the store.
best_guess(at, token, bg, idx, got) ==
    IF at = "bg_lookup"
    THEN IF token \in DOMAIN bg
         THEN [at |-> "done", got |-> bg[token], bg |-> bg]
         ELSE [at |-> "bg_get", got |-> NoHit, bg |-> bg]
    ELSE IF at = "bg_get"
    THEN [at |-> "bg_store", got |-> IndexGet(idx, token), bg |-> bg]
    ELSE [at |-> "done", got |-> got, bg |-> MemoStore(bg, token, got)]

\* _friendly_name_guess(token) (field "name") and _icon_name_guess(token)
\* (field "icon"), one access at a time: "lookup" (lru_cache looks the token
\* up in the function's own memo), the accesses of best_guess(token),
\* "store" (lru_cache stores hit.get(field), or None), "done" (it has
\* returned value).  usable: desktop_index was imported; otherwise the body
\* returns None at once.  raised: the call of best_guess made at
\* "bg_lookup" raises, and the body returns None (except Exception).
Guess(at, token, field, own, bg, idx, got, usable, raised) ==
    IF at = "lookup"
    THEN IF token \in DOMAIN own
         THEN [at |-> "done", got |-> NoHit, own |-> own, bg |-> bg,
               value |-> own[token]]
         ELSE [at |-> IF usable THEN "bg_lookup" ELSE "store",
               got |-> NoHit, own |-> own, bg |-> bg, value |-> None]
    ELSE IF at = "store"
    THEN LET value == IF IsHit(got) THEN got[field] ELSE None
         IN  [at |-> "done", got |-> NoHit, own |-> MemoStore(own, token, value),
              bg |-> bg, value |-> value]
    ELSE IF at = "bg_lookup" /\ raised
    THEN [at |-> "store", got |-> NoHit, own |-> own, bg |-> bg, value |-> None]
    ELSE LET b == best_guess(at, token, bg, idx, got)
         IN  [at |-> IF b.at = "done" THEN "store" ELSE b.at,
              got |-> b.got, own |-> own, bg |-> b.bg, value |-> None]

\* A determination in progress.  _resolve_label_and_icon_name_worker takes no
\* lock: between two of its accesses to _pkg_map, _index and the memos the
\* build threads and other determinations run.  pc is the part of the
\* function the thread executes next, at where it is inside the memoized
\* call of that part; the other fields are its local variables friendly,
\* icon_name, desktop_path, hit, name_guess and icon_guess, and got, the
\* result of the _index.get of the call it is in; None (NoHit) as long as
\* they are not assigned.  raised names the calls of it that raised
\* ("desktop_for_pkg", "hit", "name", "icon"); error is "ok", or the
\* exception with which the function was left; began notes, for the call
\* made by a synchronous resolve, how often the index's readiness signal was
\* set when the function was called (a worker's call is dated at its return).
NewDet(pkg_name) ==
    [pkg |-> pkg_name, pc |-> "curated", at |-> "none", friendly |-> None,
     icon |-> None, path |-> None, hit |-> NoHit, name_guess |-> None,
     icon_guess |-> None, got |-> NoHit, raised |-> {}, error |-> "ok",
     began |-> 0]

\* the test of step 2: a field is missing and pkg_desktop_map was imported
\* (and has desktop_for_pkg)
Step2Entered(info, mods) ==
    (~Truthy(info.name) \/ ~Truthy(info.icon)) /\ mods.pkgmap

\* the collaborator function the part at d.pc calls next, "none" when its
\* next access is not such a call
Callee(d, curated_map, mods) ==
    IF d.pc = "curated"
    THEN IF Step2Entered(CuratedGet(curated_map, d.pkg), mods)
         THEN "desktop_for_pkg" ELSE "none"
    ELSE IF d.pc \in {"hit", "name", "icon"} /\ d.at = "bg_lookup"
    THEN "best_guess"
    ELSE "none"

\* One part of _resolve_label_and_icon_name_worker: the determination and the
\* three memos after it.  m = [bg, fn, ic]: the memos of best_guess,
\* _friendly_name_guess and _icon_name_guess; mods = [index, pkgmap, raises]:
\* whether the optional modules desktop_index and pkg_desktop_map were
\* imported, and which of their functions may raise when called; fault:
\* the collaborator call of this part, if it makes one, raises.
Stage(d, curated_map, pm, idx, m, mods, fault) ==
    LET raised == fault /\ Callee(d, curated_map, mods) # "none"
        \* step 2 left by an exception of the call named by what
        Step2Raised(what) ==
            IF Step2Except(TRUE) = "ok"
            THEN [d EXCEPT !.raised = @ \cup {what}, !.hit = NoHit,
                           !.got = NoHit, !.at = "none", !.pc = "step3"]
            ELSE [d EXCEPT !.raised = @ \cup {what}, !.error = Step2Except(TRUE),
                           !.got = NoHit, !.at = "none", !.pc = "return"]
        \* step 2, after best_guess(desktop_id) returned hit
        Filled(hit) ==
            [d EXCEPT !.hit = hit,
                      !.friendly = IF IsHit(hit) THEN FillFromHit(@, hit.name) ELSE @,
                      !.icon = IF IsHit(hit) THEN FillFromHit(@, hit.icon) ELSE @,
                      !.got = NoHit, !.at = "none", !.pc = "step3"]
        \* the end of step 3 after _icon_name_guess returned, step 4, the return
        Finished(icon_guess) ==
            [d EXCEPT !.icon_guess = icon_guess,
                      !.friendly = FallbackLabel(FillFromGuess(@, d.name_guess), d.pkg),
                      !.icon = FillFromGuess(@, icon_guess),
                      !.got = NoHit, !.at = "none", !.pc = "return"]
    IN  IF d.pc = "curated"
        THEN \* 1) curated; 2) the test of step 2 and desktop_for_pkg(pkg_name)
             LET info == CuratedGet(curated_map, d.pkg)
                 c == [d EXCEPT !.friendly = info.name, !.icon = info.icon]
                 desktop_path == IF Step2Entered(info, mods)
                                 THEN desktop_for_pkg(pm, d.pkg) ELSE None
                 called == Truthy(desktop_path) /\ mods.index
             IN  IF raised
                 THEN [det |-> [Step2Raised("desktop_for_pkg") EXCEPT
                                   !.friendly = info.name, !.icon = info.icon],
                       memo |-> m]
                 ELSE [det |-> [c EXCEPT !.path = desktop_path,
                                         !.pc = IF called THEN "hit" ELSE "step3",
                                         !.at = IF called THEN "bg_lookup" ELSE "none"],
                       memo |-> m]
        ELSE IF d.pc = "hit"
        THEN \* 2) hit = desktop_index.best_guess(desktop_id), and what it fills
             LET desktop_id == Basename(d.path)
                 b == best_guess(d.at, desktop_id, m.bg, idx, d.got)
             IN  IF raised
                 THEN [det |-> Step2Raised("hit"), memo |-> m]
                 ELSE [det |-> IF b.at = "done" THEN Filled(b.got)
                               ELSE [d EXCEPT !.at = b.at, !.got = b.got],
                       memo |-> [m EXCEPT !.bg = b.bg]]
        ELSE IF d.pc = "step3"
        THEN \* 3) the test of step 3; when it fails, 4) and the return
             IF ~Truthy(d.friendly) \/ ~Truthy(d.icon)
             THEN [det |-> [d EXCEPT !.pc = "name", !.at = "lookup"], memo |-> m]
             ELSE [det |-> [d EXCEPT !.friendly = FallbackLabel(@, d.pkg),
                                     !.pc = "return"],
                   memo |-> m]
        ELSE IF d.pc = "name"
        THEN \* 3) name_guess = _friendly_name_guess(pkg_name)
             LET g == Guess(d.at, d.pkg, "name", m.fn, m.bg, idx, d.got, mods.index,
                            raised)
                 r == IF raised THEN d.raised \cup {"name"} ELSE d.raised
             IN  [det |-> IF g.at = "done"
                          THEN [d EXCEPT !.name_guess = g.value, !.got = NoHit,
                                         !.pc = "icon", !.at = "lookup"]
                          ELSE [d EXCEPT !.at = g.at, !.got = g.got, !.raised = r],
                  memo |-> [bg |-> g.bg, fn |-> g.own, ic |-> m.ic]]
        ELSE \* 3) icon_guess = _icon_name_guess(pkg_name), what the two guesses
             \* fill; 4) fallback; the return
             LET g == Guess(d.at, d.pkg, "icon", m.ic, m.bg, idx, d.got, mods.index,
                            raised)
                 r == IF raised THEN d.raised \cup {"icon"} ELSE d.raised
             IN  [det |-> IF g.at = "done" THEN Finished(g.value)
                          ELSE [d EXCEPT !.at = g.at, !.got = g.got, !.raised = r],
                  memo |-> [bg |-> g.bg, fn |-> m.fn, ic |-> g.own]]

\* whether the part at d.pc reads or writes _pkg_map, _index or a memo, or
\* calls a collaborator: the other parts work on local variables only
Reads(d, curated_map, mods) ==
    IF d.pc = "curated"
    THEN Step2Entered(CuratedGet(curated_map, d.pkg), mods)
    ELSE d.pc \in {"hit", "name", "icon"}

\* the determination run on from d through at most n accesses, with nothing
\* else running in between; fault: the collaborator call among them raises
RECURSIVE Run(_, _, _, _, _, _, _, _)
Run(d, curated_map, pm, idx, m, mods, n, fault) ==
    IF d.pc = "return" \/ (Reads(d, curated_map, mods) /\ n = 0)
    THEN [det |-> d, memo |-> m]
    ELSE LET a == Stage(d, curated_map, pm, idx, m, mods, fault)
         IN  Run(a.det, curated_map, pm, idx, a.memo, mods,
                 IF Reads(d, curated_map, mods) THEN n - 1 ELSE n, fault)

\* one step of a determination: the local work up to its next access, that
\* access, and the local work up to the one after it
Advance(d, curated_map, pm, idx, m, mods, fault) ==
    Run(d, curated_map, pm, idx, m, mods, 1, fault)

\* the determination run on from d to its return with nothing else running
\* in between and no call raising
RECURSIVE Whole(_, _, _, _, _, _)
Whole(d, curated_map, pm, idx, m, mods) ==
    IF d.pc = "return" THEN [det |-> d, memo |-> m]
    ELSE LET a == Stage(d, curated_map, pm, idx, m, mods, FALSE)
         IN  Whole(a.det, curated_map, pm, idx, a.memo, mods)

\* _resolve_label_and_icon_name_worker run from its first line to its return
\* with nothing else running in between and no call raising: the pair
\* returned and the three memos it leaves
_resolve_label_and_icon_name_worker(pkg_name, curated_map, pm, idx, m, mods) ==
    LET r == Whole(NewDet(pkg_name), curated_map, pm, idx, m, mods)
    IN  [label |-> r.det.friendly, icon |-> r.det.icon, memo |-> r.memo]

(***************************************************************************)
(* State.                                                                  *)
(***************************************************************************)
VARIABLES
    themed,          \* iconlist._THEMED_ICONS_AVAILABLE
    pygobject,       \* gi.repository can be imported (it can whenever themed)
    hasDisplay,      \* Gdk.Display.get_default() / Gtk.Settings.get_default() exist
    disablePkgMap,   \* SOFTWARE_STATION_DISABLE_PKG_MAP == "1"
    mods,            \* optional modules imported by icons.py: [index, pkgmap],
                     \* and which of their functions may raise: raises
    curated,         \* the curated table the callers of this run pass
    themeName,       \* the active icon theme (gtk-icon-theme-name)
    monitorScale,    \* the primary monitor's scale factor
    iconTheme,       \* icons._icon_theme is not None
    scale,           \* icons._scale
    cache,           \* icons._pixbuf_cache
    handlers,        \* signal handlers connected: [theme, monitor]
    memo,            \* the lru caches: [bg, fn, ic]
    index,           \* desktop_index._index
    idxReady,        \* desktop_index._ready: number of set() calls
    idxThreads,      \* index build threads: position in ScanOrder
    idxPending,      \* index build threads: the tokens of the file at that
                     \* position still to insert, {} before its first insertion
    pkgMap,          \* pkg_desktop_map._pkg_map
    pkgReady,        \* pkg_desktop_map._ready: number of set() calls
    pkgThreads,      \* package-map build threads: [pc, pending]
    syncCall,        \* the resolve_label_and_icon_sync call the main thread is
                     \* in: [active, size, det]
    initCall,        \* the init_icon_runtime call the main thread is in:
                     \* [active, pc]
    reqs,            \* asynchronous resolve requests
    idleQ,           \* GLib idle sources of the main loop, oldest first
    nextPix,         \* theme loads made so far (the identity of the next pixbuf)
    budget,          \* what the run may still do: [inits, events, asyncs, loads, off,
                     \* sizes, cmds, pkgs, sync, icons, cbrets]
    accessors,       \* threads that have read or written cache or scale
    lastCall,        \* the last step: what was called, by whom, the result
    prev             \* the last synchronous resolve that returned, while no
                     \* theme-name or scale event has come since

vars == <<themed, pygobject, hasDisplay, disablePkgMap, mods, curated, userDir, themeName, monitorScale, iconTheme,
          scale, cache, handlers, memo, index, idxReady, idxThreads, idxPending,
          pkgMap,
          pkgReady, pkgThreads, syncCall, initCall, reqs, idleQ, nextPix, budget, accessors, lastCall,
          prev>>

\* what the build threads own
buildVars == <<index, idxReady, idxThreads, idxPending, pkgMap, pkgReady, pkgThreads>>
\* what never changes after start-up
configVars == <<themed, pygobject, hasDisplay, disablePkgMap, mods, curated, userDir>>
\* the icon runtime of icons.py
iconVars == <<iconTheme, scale, cache, handlers, nextPix, accessors>>

Main == "main"

\* the main thread is in no synchronous resolve
NoSync == [active |-> FALSE, size |-> 0, det |-> NewDet(None)]

\* the main thread is not in init_icon_runtime
NoInit == [active |-> FALSE, pc |-> "none"]

\* thread t is not inside a call: the main thread runs one call, handler or
\* idle source at a time
Free(t) == t = Main => ~syncCall.active /\ ~initCall.active
\* threads that call the public functions: the main thread, another one
Threads == {Main, "app"}
\* ... those of the run: the other thread calls only when the run has budget.off
Callers == IF budget.off THEN Threads ELSE {Main}
Packages == {<<"vlc">>, <<"foo">>, <<"unknown-pkg">>}
\* the packages this run asks about
Requested == budget.pkgs
\* the pixel sizes requested in this run
Sizes == budget.sizes
Scales == {1, 2}

\* a variant that never raises
AssertMainThreadSkipped(t) == TRUE

\* _assert_main_thread(): passes on the main thread, raises elsewhere
AssertMainThread(t) == t = Main

\* _compute_scale_factor(): the primary monitor's scale factor, 1 without display
_compute_scale_factor(display, monScale) == IF display THEN monScale ELSE 1

\* a variant that recomputes the scale and keeps the cache
_rebuild_scale_keep_cache(c, display, monScale) ==
    [scale |-> _compute_scale_factor(display, monScale), cache |-> c]

\* _rebuild_scale_and_clear_cache(): the scale and the cache it leaves
_rebuild_scale_and_clear_cache(c, display, monScale) ==
    [scale |-> _compute_scale_factor(display, monScale), cache |-> ClearCache(c)]

\* a variant that leaves the cache as it is
_on_icon_theme_change_ignored(c) == c

\* _on_icon_theme_change(): the cache it leaves
_on_icon_theme_change(c) == ClearCache(c)

\* the record of a step: op called by thread; inner is what the icons.py call
\* did ("ok" or the exception raised), outcome what the caller of op sees,
\* dropped the number of cache entries the step removed, cmd how the
\* external command of the step ended, det the determination that returned
\* in the step
NoCall ==
    [op |-> "start", thread |-> Main, pkg |-> None, size |-> 0, inner |-> "ok",
     outcome |-> "ok", label |-> None, icon |-> None, pix |-> NonePix,
     lookups |-> 0, hit |-> FALSE, dropped |-> 0, cmd |-> "none",
     retLabel |-> None, retPix |-> NonePix, det |-> NewDet(None)]

Internal(op, t) == [NoCall EXCEPT !.op = op, !.thread = t]

\* no synchronous resolve to compare the next one with
NoPrev == [valid |-> FALSE, pkg |-> None, size |-> 0, label |-> None,
           pix |-> NonePix]

\* The runs explored.  Each scenario fixes the start-up configuration (the
\* theme active at start-up among it) and what the run may do: how many
\* inits, events, asynchronous requests and theme loads it makes, whether a
\* second application thread calls in, the packages it asks about, whether
\* it makes synchronous resolves, the icon names it hands to
\* _load_icon_pixbuf_main directly and what its callbacks return.
Scenario(th, disp, nomap, hasIdx, hasPkg, cur, theme, mscale, inits, events, asyncs, loads, off, sizes, cmds, raises, udir, gi, pkgs, sync, icons, cbrets) ==
    [themed |-> th, pygobject |-> gi, curated |-> cur, hasDisplay |-> disp, disablePkgMap |-> nomap,
     mods |-> [index |-> hasIdx, pkgmap |-> hasPkg, raises |-> raises],
     themeName |-> theme, monitorScale |-> mscale, userDir |-> udir,
     budget |-> [inits |-> inits, events |-> events, asyncs |-> asyncs,
                 loads |-> loads, off |-> off, sizes |-> sizes, cmds |-> cmds,
                 pkgs |-> pkgs, sync |-> sync, icons |-> icons, cbrets |-> cbrets]]

Scenarios ==
    { \* start-up, init called again: the index builds racing one another
      Scenario(TRUE, TRUE, FALSE, TRUE, FALSE, ACCESSORIES_MAP,
               "Adwaita", 1,
               MaxInits, 0, 0, MaxLoads - 2, FALSE, {32}, {"ok"}, {}, TRUE, TRUE,
               {}, FALSE, {}, {FALSE}),
      \* start-up, init called again: the package-map builds racing one
      \* another, synchronous resolves before and after the second init
      Scenario(TRUE, TRUE, FALSE, FALSE, TRUE, ACCESSORIES_MAP,
               "Adwaita", 1,
               MaxInits, 0, 0, MaxLoads - 1, FALSE, {32}, {"ok", "missing"}, {}, TRUE, TRUE,
               {<<"foo">>}, TRUE, {}, {FALSE}),
      \* the package-map build alone, its commands ending in every way
      Scenario(TRUE, TRUE, FALSE, FALSE, TRUE, ACCESSORIES_MAP,
               "Adwaita", 1,
               MaxInits - 1, 0, 0, MaxLoads - 2, FALSE, {32}, CmdOutcomes, {}, TRUE, TRUE,
               {<<"foo">>}, TRUE, {}, {FALSE}),
      \* synchronous resolution while both builds run
      Scenario(TRUE, TRUE, FALSE, TRUE, TRUE, ACCESSORIES_MAP,
               "Adwaita", 1,
               MaxInits - 1, 0, 0, MaxLoads - 1, FALSE, {32}, {"ok"}, {}, TRUE, TRUE,
               {<<"foo">>, <<"vlc">>}, TRUE, {}, {FALSE}),
      \* a theme with unreadable icon files on a display of scale 2
      Scenario(TRUE, TRUE, FALSE, FALSE, FALSE, ACCESSORIES_MAP,
               "Damaged", 2,
               MaxInits - 1, MaxEvents - 1, 0, MaxLoads - 1, FALSE, {32}, {"ok"}, {}, TRUE, TRUE,
               {<<"vlc">>, <<"unknown-pkg">>}, TRUE, {}, {FALSE}),
      \* synchronous and asynchronous resolution while the index build runs
      Scenario(TRUE, TRUE, TRUE, TRUE, TRUE, ACCESSORIES_MAP,
               "Adwaita", 1,
               MaxInits - 1, 0, MaxAsync - 1, MaxLoads - 2, FALSE, {32}, {"ok"}, {}, TRUE, TRUE,
               {<<"foo">>}, TRUE, {}, {FALSE}),
      \* the cache under theme, monitor and scale events; no optional module
      Scenario(TRUE, TRUE, FALSE, FALSE, FALSE, ACCESSORIES_MAP,
               "Adwaita", 1,
               MaxInits - 1, MaxEvents, 0, MaxLoads, FALSE, {16, 32}, {"ok"}, {}, TRUE, TRUE,
               {<<"vlc">>, <<"unknown-pkg">>}, TRUE, {None, <<"vlc">>}, {FALSE}),
      \* asynchronous requests side by side; no optional module
      Scenario(TRUE, TRUE, FALSE, FALSE, FALSE, ACCESSORIES_MAP,
               "Adwaita", 2,
               MaxInits - 1, 0, MaxAsync, MaxLoads - 2, FALSE, {32}, {"ok"}, {}, TRUE, TRUE,
               {<<"foo">>}, FALSE, {}, BOOLEAN),
      \* calls from a second thread; no optional module
      Scenario(TRUE, TRUE, FALSE, FALSE, FALSE, ACCESSORIES_MAP,
               "Adwaita", 2,
               MaxInits - 1, MaxEvents - 1, MaxAsync - 1, MaxLoads - 2, TRUE, {32}, {"ok"}, {}, TRUE, TRUE,
               {<<"vlc">>}, TRUE, {None, <<"vlc">>}, {FALSE}),
      \* asynchronous resolution while both builds run
      Scenario(TRUE, TRUE, FALSE, TRUE, TRUE, ACCESSORIES_MAP,
               "Adwaita", 1,
               MaxInits - 1, 0, MaxAsync - 1, MaxLoads - 2, FALSE, {32}, {"ok"},
               {}, TRUE, TRUE, {<<"foo">>}, FALSE, {}, {FALSE}),
      \* the same with a package map whose query may raise
      Scenario(TRUE, TRUE, FALSE, TRUE, TRUE, ACCESSORIES_MAP,
               "Adwaita", 1,
               MaxInits - 1, 0, MaxAsync - 1, MaxLoads - 2, FALSE, {32}, {"ok"},
               {"desktop_for_pkg"}, TRUE, TRUE, {<<"foo">>}, FALSE, {}, {FALSE}),
      \* synchronous resolution while both builds run, with an index whose
      \* lookup may raise
      Scenario(TRUE, TRUE, FALSE, TRUE, TRUE, ACCESSORIES_MAP,
               "Adwaita", 1,
               MaxInits - 1, 0, 0, MaxLoads - 2, FALSE, {32}, {"ok"},
               {"best_guess"}, TRUE, TRUE, {<<"foo">>}, TRUE, {}, {FALSE}),
      \* the index build of a user without a ~/.local/share/applications
      Scenario(TRUE, TRUE, TRUE, TRUE, FALSE, ACCESSORIES_MAP,
               "Adwaita", 1,
               MaxInits - 1, 0, 0, MaxLoads - 2, FALSE, {32}, {"ok"}, {}, FALSE, TRUE,
               Packages, TRUE, {}, {FALSE}),
      \* no display
      Scenario(TRUE, FALSE, TRUE, TRUE, TRUE, ACCESSORIES_MAP,
               "Adwaita", 1,
               MaxInits - 1, 0, MaxAsync - 1, MaxLoads - 2, FALSE, {32}, {"ok"}, {}, TRUE, TRUE,
               {<<"foo">>}, TRUE, {None}, {FALSE}),
      \* the themed stack cannot be imported: the legacy path
      Scenario(FALSE, TRUE, FALSE, FALSE, FALSE, ACCESSORIES_MAP,
               "Adwaita", 1,
               MaxInits - 1, 0, MaxAsync - 1, 0, TRUE, {32}, {"ok"}, {}, TRUE, TRUE,
               Packages, TRUE, {}, BOOLEAN),
      \* neither the themed stack nor PyGObject can be imported
      Scenario(FALSE, TRUE, FALSE, FALSE, FALSE, ACCESSORIES_MAP,
               "Adwaita", 1,
               MaxInits - 1, 0, MaxAsync - 1, 0, TRUE, {32}, {"ok"}, {}, TRUE, FALSE,
               Packages, TRUE, {}, BOOLEAN) }

Init ==
    /\ \E sc \in Scenarios :
          /\ themed = sc.themed
          /\ pygobject = sc.pygobject
          /\ hasDisplay = sc.hasDisplay
          /\ disablePkgMap = sc.disablePkgMap
          /\ mods = sc.mods
          /\ curated = sc.curated
          /\ userDir = sc.userDir
          /\ themeName = sc.themeName
          /\ monitorScale = sc.monitorScale
          /\ budget = sc.budget
    /\ iconTheme = FALSE
    /\ scale = 1
    /\ cache = EmptyDict
    /\ handlers = [theme |-> 0, monitor |-> 0]
    /\ memo = [bg |-> EmptyDict, fn |-> EmptyDict, ic |-> EmptyDict]
    /\ index = EmptyDict
    /\ idxReady = 0
    /\ idxThreads = <<>>
    /\ idxPending = <<>>
    /\ pkgMap = EmptyDict
    /\ pkgReady = 0
    /\ pkgThreads = <<>>
    /\ syncCall = NoSync
    /\ initCall = NoInit
    /\ reqs = <<>>
    /\ idleQ = <<>>
    /\ nextPix = 0
    /\ accessors = {}
    /\ lastCall = NoCall
    /\ prev = NoPrev

\* steps after which the cache holds nothing it held before
Invalidating ==
    {"theme_name_changed", "monitor_changed", "init_icon_runtime"}

\* the notifications of a theme-name change and of a scale change
ThemeOrScaleEvents ==
    {"theme_name_changed", "monitor_changed", "scale_factor_changed"}

\* history: the last synchronous resolve that returned, forgotten when a
\* theme-name or scale notification comes
Track ==
    prev' =
      IF lastCall'.op = "resolve_label_and_icon_sync" /\ lastCall'.inner = "ok"
      THEN [valid |-> TRUE, pkg |-> lastCall'.pkg, size |-> lastCall'.size,
            label |-> lastCall'.label, pix |-> lastCall'.pix]
      ELSE IF lastCall'.op \in ThemeOrScaleEvents THEN NoPrev
      ELSE prev

(***************************************************************************)
(* icons.py: init_icon_runtime (through iconlist.init_icons_runtime)       *)
(***************************************************************************)
\* a package-map build thread: where it is, the package names it got, those
\* whose result is still to come, those whose listing command gave nothing,
\* whether one of its workers is blocked in a command that never exits
NewPkgThread ==
    [pc |-> "query", names |-> {}, pending |-> {}, failed |-> {}, hung |-> FALSE]

\* a variant that starts the package-map build whatever the environment says
StartsPkgBuildAlways(hasPkg, disabled) == hasPkg

\* the package-map build is started when the module was imported and
\* SOFTWARE_STATION_DISABLE_PKG_MAP is not "1"
StartsPkgBuild(hasPkg, disabled) == hasPkg /\ ~disabled

\* init_icon_runtime() called by thread t, up to its first thread start:
\* _assert_main_thread(), the theme, the handlers, the scale and the cache
\* (lines 65-80), build_index_async() when desktop_index was imported (line
\* 84).  When the package-map build is to be started after the index build,
\* the main thread is still in the call after this step: the index build
\* thread runs before build_pkg_map_async() (line 92) is called.
init_icon_runtime(t) ==
    /\ themed
    /\ Free(t)
    /\ IF ~AssertMainThread(t)
       THEN /\ lastCall' = [Internal("init_icon_runtime", t) EXCEPT
                               !.inner = "RuntimeError", !.outcome = "RuntimeError"]
            /\ UNCHANGED <<configVars, syncCall, initCall, themeName, monitorScale, iconVars, memo,
                           buildVars, reqs, idleQ, budget>>
       ELSE /\ budget.inits > 0
            /\ budget' = [budget EXCEPT !.inits = @ - 1]
            /\ iconTheme' = hasDisplay
            /\ handlers' = IF hasDisplay
                           THEN [theme |-> handlers.theme + 1,
                                 monitor |-> handlers.monitor + 1]
                           ELSE handlers
            /\ scale' = _rebuild_scale_and_clear_cache(cache, hasDisplay, monitorScale).scale
            /\ cache' = _rebuild_scale_and_clear_cache(cache, hasDisplay, monitorScale).cache
            /\ accessors' = accessors \cup {t}
            /\ idxThreads' = IF mods.index THEN Append(idxThreads, 1) ELSE idxThreads
            /\ idxPending' = IF mods.index THEN Append(idxPending, {}) ELSE idxPending
            /\ IF mods.index /\ StartsPkgBuild(mods.pkgmap, disablePkgMap)
               THEN /\ initCall' = [active |-> TRUE, pc |-> "build_pkg_map_async"]
                    /\ pkgThreads' = pkgThreads
                    /\ lastCall' = [Internal("init_icon_runtime", t) EXCEPT
                                       !.outcome = "running",
                                       !.dropped = Cardinality(DOMAIN cache \ DOMAIN cache')]
               ELSE /\ initCall' = NoInit
                    /\ pkgThreads' = IF StartsPkgBuild(mods.pkgmap, disablePkgMap)
                                     THEN Append(pkgThreads, NewPkgThread)
                                     ELSE pkgThreads
                    /\ lastCall' = [Internal("init_icon_runtime", t) EXCEPT
                                       !.dropped = Cardinality(DOMAIN cache \ DOMAIN cache')]
            /\ UNCHANGED <<configVars, syncCall, themeName, monitorScale, memo, index, idxReady,
                           pkgMap, pkgReady, reqs, idleQ, nextPix>>
    /\ Track

\* the init_icon_runtime call the main thread is in goes on:
\* pkg_desktop_map.build_pkg_map_async() (line 92), and the return
init_icon_runtime_step ==
    /\ themed
    /\ initCall.active
    /\ pkgThreads' = Append(pkgThreads, NewPkgThread)
    /\ initCall' = NoInit
    /\ lastCall' = Internal("init_icon_runtime", Main)
    /\ UNCHANGED <<configVars, syncCall, themeName, monitorScale, iconVars, memo, index,
                   idxReady, idxThreads, idxPending, pkgMap, pkgReady, reqs, idleQ, budget>>
    /\ Track

\* iconlist.init_icons_runtime without the themed stack: a no-op
init_icons_runtime_legacy(t) ==
    /\ ~themed
    /\ Free(t)
    /\ lastCall' = Internal("init_icons_runtime", t)
    /\ UNCHANGED <<configVars, syncCall, initCall, themeName, monitorScale, iconVars, memo, buildVars,
                   reqs, idleQ, budget>>
    /\ Track

(***************************************************************************)
(* icons.py: _load_icon_pixbuf_main                                        *)
(***************************************************************************)
\* the exception _load_icon_pixbuf_main raises at its head, or "ok"
LoadOutcome(t) ==
    IF ~AssertMainThread(t) THEN "RuntimeError"
    ELSE IF ~iconTheme THEN "AssertionError"      \* assert _icon_theme is not None
    ELSE "ok"

LoadHit(icon_name, size) == CacheKey(icon_name, size, scale) \in DOMAIN cache

LoadPix(icon_name, size) ==
    LoadValue(cache, themeName, icon_name, size, scale, nextPix + 1)


\* the effect of _load_icon_pixbuf_main(icon_name, size) run by thread t
LoadStep(t, icon_name, size) ==
    IF LoadOutcome(t) = "ok"
    THEN /\ ~LoadHit(icon_name, size) => nextPix < budget.loads
         /\ cache' = LoadCache(cache, themeName, icon_name, size, scale, nextPix + 1)
         /\ nextPix' = IF LoadHit(icon_name, size) THEN nextPix ELSE nextPix + 1
         /\ accessors' = accessors \cup {t}
    ELSE UNCHANGED <<cache, nextPix, accessors>>

\* what the call reports: the pixbuf returned, the theme lookups made
LoadReport(call, t, icon_name, size) ==
    IF LoadOutcome(t) = "ok"
    THEN [call EXCEPT !.pix = LoadPix(icon_name, size),
                      !.hit = LoadHit(icon_name, size),
                      !.lookups = IF LoadHit(icon_name, size) THEN 0
                                  ELSE LookupCount(themeName, icon_name)]
    ELSE [call EXCEPT !.inner = LoadOutcome(t), !.outcome = LoadOutcome(t)]

\* icon names handed to a direct call in this run
DirectIconNames == budget.icons

_load_icon_pixbuf_main(t, icon_name, size) ==
    /\ themed
    /\ Free(t)
    /\ LoadStep(t, icon_name, size)
    /\ lastCall' = LoadReport([Internal("_load_icon_pixbuf_main", t) EXCEPT
                                  !.icon = icon_name, !.size = size],
                              t, icon_name, size)
    /\ UNCHANGED <<configVars, syncCall, initCall, themeName, monitorScale, iconTheme, scale, handlers,
                   memo, buildVars, reqs, idleQ, budget>>
    /\ Track

(***************************************************************************)
(* icons.py: resolve_label_and_icon_sync, and its callers in iconlist.py   *)
(***************************************************************************)
\* the next step of the determination d in the current state (curated table:
\* the one iconlist.py passes); fault: the collaborator call of the step raises
Step(d, fault) == Advance(d, curated, pkgMap, index, memo, mods, fault)

\* the local work of the determination d up to its next access or its return
Rest(d) == Run(d, curated, pkgMap, index, memo, mods, 0, FALSE).det

\* what the collaborator call of the next step of d may do: return (FALSE)
\* or, in a run in which that function may raise, raise (TRUE)
Faults(d) ==
    IF Callee(Rest(d), curated, mods) \in mods.raises THEN BOOLEAN ELSE {FALSE}

\* the main thread, inside resolve_label_and_icon_sync(pkg, curated, size)
\* with the determination at d, takes a step: the next access of the
\* determination or, when it has made its last,
\* _load_icon_pixbuf_main(icon_name, size) and the return of the call
SyncAdvance(t, pkg, size, d) ==
    IF Rest(d).pc = "return" /\ Rest(d).error # "ok"
    THEN \* the determination was left by an exception, and so is the call
         /\ memo' = memo
         /\ syncCall' = NoSync
         /\ lastCall' = [Internal("resolve_label_and_icon_sync", t) EXCEPT
                            !.pkg = pkg, !.size = size, !.det = Rest(d),
                            !.inner = Rest(d).error, !.outcome = Rest(d).error]
         /\ UNCHANGED <<cache, nextPix, accessors>>
    ELSE IF Rest(d).pc = "return"
    THEN /\ LoadStep(t, Rest(d).icon, size)
         /\ memo' = memo
         /\ syncCall' = NoSync
         /\ lastCall' = LoadReport(
                           [Internal("resolve_label_and_icon_sync", t) EXCEPT
                               !.pkg = pkg, !.size = size,
                               !.label = Rest(d).friendly,
                               !.icon = Rest(d).icon,
                               !.det = Rest(d)],
                           t, Rest(d).icon, size)
    ELSE \E fault \in Faults(d) :
           LET a == Step(d, fault)
           IN  /\ memo' = a.memo
               /\ syncCall' = [active |-> TRUE, size |-> size, det |-> a.det]
               /\ lastCall' = [Internal("determine", t) EXCEPT
                                  !.pkg = pkg, !.size = size]
               /\ UNCHANGED <<cache, nextPix, accessors>>

\* _legacy_get_pixbuf: software_station_xpm is not installed, so no legacy pixbuf
LegacyPixbuf == NonePix

\* what the caller of the iconlist function op gets, given the report r of
\* the resolve_label_and_icon_sync call it makes
ReturnOf(op, r) ==
    IF op = "get_icon_for_package"
    THEN \* except Exception: pass; then the legacy pixbuf or None
         [r EXCEPT !.outcome = "ok",
                   !.retPix = IF r.inner = "ok" /\ r.pix # NonePix THEN r.pix
                              ELSE LegacyPixbuf]
    ELSE IF op = "get_friendly_label"
    THEN \* return label or pkg_name; except Exception: return pkg_name
         [r EXCEPT !.outcome = "ok",
                   !.retLabel = IF r.inner = "ok" /\ Truthy(r.label) THEN r.label
                                ELSE r.pkg]
    ELSE \* themed_icon_and_label_sync returns what resolve_label_and_icon_sync does
         IF r.inner = "ok" THEN [r EXCEPT !.retLabel = r.label, !.retPix = r.pix]
         ELSE r

SyncOps == {"themed_icon_and_label_sync", "get_icon_for_package", "get_friendly_label"}

\* a call of resolve_label_and_icon_sync: directly, or by one of the three
\* iconlist functions, whose return values are ReturnOf(op, lastCall) once
\* the call has returned.  _assert_main_thread() comes first; on the main
\* thread the determination begins.
resolve_label_and_icon_sync(t, pkg, size) ==
    /\ themed
    /\ budget.sync
    /\ Free(t)
    /\ IF ~AssertMainThread(t)
       THEN /\ lastCall' = [Internal("resolve_label_and_icon_sync", t) EXCEPT
                               !.pkg = pkg, !.size = size,
                               !.inner = "RuntimeError", !.outcome = "RuntimeError"]
            /\ UNCHANGED <<memo, cache, nextPix, accessors, syncCall>>
       ELSE SyncAdvance(t, pkg, size, [NewDet(pkg) EXCEPT !.began = idxReady])
    /\ UNCHANGED <<configVars, initCall, themeName, monitorScale, iconTheme, scale, handlers,
                   buildVars, reqs, idleQ, budget>>
    /\ Track

\* the call the main thread is in goes on
resolve_label_and_icon_sync_step ==
    /\ themed
    /\ syncCall.active
    /\ SyncAdvance(Main, syncCall.det.pkg, syncCall.size, syncCall.det)
    /\ UNCHANGED <<configVars, initCall, themeName, monitorScale, iconTheme, scale, handlers,
                   buildVars, reqs, idleQ, budget>>
    /\ Track

\* the same three functions without the themed stack: the legacy path
sync_legacy(t, pkg, size) ==
    /\ ~themed
    /\ Free(t)
    /\ lastCall' = [Internal("sync_legacy", t) EXCEPT
                       !.pkg = pkg, !.size = size, !.label = pkg,
                       !.retLabel = pkg, !.retPix = LegacyPixbuf]
    /\ UNCHANGED <<configVars, syncCall, initCall, themeName, monitorScale, iconVars, memo, buildVars,
                   reqs, idleQ, budget>>
    /\ Track

(***************************************************************************)
(* icons.py: resolve_label_and_icon_async (iconlist:                       *)
(* themed_icon_and_label_async)                                            *)
(***************************************************************************)
NewRequest(pkg, size, cbret) ==
    [pkg |-> pkg, size |-> size, cbret |-> cbret, pc |-> "submitted",
     det |-> NewDet(pkg), label |-> None, icon |-> None, pix |-> NonePix,
     calls |-> 0, cbThreads |-> {}, ready |-> 0]

\* the call itself: _executor.submit(worker), or Thread(worker).start()
themed_icon_and_label_async(t, pkg, size, cbret) ==
    /\ Free(t)
    /\ budget.asyncs > 0
    /\ budget' = [budget EXCEPT !.asyncs = @ - 1]
    /\ reqs' = Append(reqs, NewRequest(pkg, size, cbret))
    /\ lastCall' = [Internal("themed_icon_and_label_async", t) EXCEPT
                       !.pkg = pkg, !.size = size]
    /\ UNCHANGED <<configVars, syncCall, initCall, themeName, monitorScale, iconVars, memo, buildVars,
                   idleQ>>
    /\ Track

\* worker(), on a pool thread: the next access of the determination of
\* (label, icon_name) or, when it has made its last,
\* GLib.idle_add(main_thread_finish); a worker whose determination is left
\* by an exception ends there (the future keeps the exception).  ready notes
\* how often the index's readiness signal was set when the determination
\* returned.
async_worker(i) ==
    /\ themed
    /\ reqs[i].pc = "submitted"
    /\ LET d == Rest(reqs[i].det)
       IN  IF d.pc = "return" /\ d.error # "ok"
           THEN /\ memo' = memo
                /\ reqs' = [reqs EXCEPT ![i].det = d, ![i].pc = "failed"]
                /\ idleQ' = idleQ
                /\ lastCall' = [Internal("worker", "pool") EXCEPT
                                   !.pkg = reqs[i].pkg, !.size = reqs[i].size,
                                   !.det = d,
                                   !.inner = d.error, !.outcome = d.error]
           ELSE IF d.pc = "return"
           THEN /\ memo' = memo
                /\ reqs' = [reqs EXCEPT ![i].det = d,
                                        ![i].label = d.friendly,
                                        ![i].icon = d.icon,
                                        ![i].ready = idxReady,
                                        ![i].pc = "queued"]
                /\ idleQ' = Append(idleQ, i)
                /\ lastCall' = [Internal("worker", "pool") EXCEPT
                                   !.pkg = reqs[i].pkg, !.size = reqs[i].size,
                                   !.label = d.friendly,
                                   !.icon = d.icon,
                                   !.det = d]
           ELSE \E fault \in Faults(reqs[i].det) :
                  LET a == Step(reqs[i].det, fault)
                  IN  /\ memo' = a.memo
                      /\ reqs' = [reqs EXCEPT ![i].det = a.det]
                      /\ idleQ' = idleQ
                      /\ lastCall' = [Internal("determine", "pool") EXCEPT
                                         !.pkg = reqs[i].pkg, !.size = reqs[i].size]
    /\ UNCHANGED <<configVars, syncCall, initCall, themeName, monitorScale, iconVars, buildVars,
                   budget>>
    /\ Track

\* the thread on which the main loop runs an idle source
IdleThread == Main

\* main_thread_finish(), an idle source of the main loop: load the pixbuf,
\* call on_ready(label, pixbuf); it returns None, so the source is removed
main_thread_finish ==
    /\ themed
    /\ Free(IdleThread)
    /\ idleQ # <<>>
    /\ LET i == Head(idleQ)
           r == reqs[i]
       IN  /\ LoadStep(IdleThread, r.icon, r.size)
           /\ reqs' = IF LoadOutcome(IdleThread) = "ok"
                      THEN [reqs EXCEPT ![i].pix = LoadPix(r.icon, r.size),
                                        ![i].calls = @ + 1,
                                        ![i].cbThreads = @ \cup {IdleThread},
                                        ![i].pc = "done"]
                      ELSE [reqs EXCEPT ![i].pc = "failed"]
           /\ lastCall' = LoadReport([Internal("main_thread_finish", IdleThread) EXCEPT
                                         !.pkg = r.pkg, !.size = r.size,
                                         !.label = r.label, !.icon = r.icon,
                                         !.det = r.det],
                                     IdleThread, r.icon, r.size)
    /\ idleQ' = Tail(idleQ)
    /\ UNCHANGED <<configVars, syncCall, initCall, themeName, monitorScale, iconTheme, scale, handlers,
                   memo, buildVars, budget>>
    /\ Track

\* the legacy worker: pix from the legacy provider, then
\* `from gi.repository import GLib`, which raises without PyGObject and ends
\* the worker thread, then GLib.idle_add(on_ready, pkg_name, pix)
legacy_worker(i) ==
    /\ ~themed
    /\ reqs[i].pc = "submitted"
    /\ IF pygobject
       THEN /\ reqs' = [reqs EXCEPT ![i].label = reqs[i].pkg,
                                    ![i].pix = LegacyPixbuf,
                                    ![i].pc = "queued"]
            /\ idleQ' = Append(idleQ, i)
            /\ lastCall' = [Internal("worker", "thread") EXCEPT
                               !.pkg = reqs[i].pkg, !.size = reqs[i].size,
                               !.label = reqs[i].pkg]
       ELSE /\ reqs' = [reqs EXCEPT ![i].pc = "failed"]
            /\ idleQ' = idleQ
            /\ lastCall' = [Internal("worker", "thread") EXCEPT
                               !.pkg = reqs[i].pkg, !.size = reqs[i].size,
                               !.inner = "ModuleNotFoundError",
                               !.outcome = "ModuleNotFoundError"]
    /\ UNCHANGED <<configVars, syncCall, initCall, themeName, monitorScale, iconVars, memo, buildVars,
                   budget>>
    /\ Track

\* the legacy idle source is on_ready itself: GLib keeps a source whose
\* function returns a true value and calls it again
legacy_idle ==
    /\ ~themed
    /\ Free(IdleThread)
    /\ idleQ # <<>>
    /\ LET i == Head(idleQ)
           r == reqs[i]
       IN  /\ r.calls < MaxDeliveries
           /\ reqs' = [reqs EXCEPT ![i].calls = @ + 1,
                                   ![i].cbThreads = @ \cup {IdleThread},
                                   ![i].pc = IF r.cbret THEN "queued" ELSE "done"]
           /\ idleQ' = IF r.cbret THEN Append(Tail(idleQ), i) ELSE Tail(idleQ)
           /\ lastCall' = [Internal("on_ready", IdleThread) EXCEPT
                              !.pkg = r.pkg, !.size = r.size, !.label = r.label]
    /\ UNCHANGED <<configVars, syncCall, initCall, themeName, monitorScale, iconVars, memo, buildVars,
                   budget>>
    /\ Track

(***************************************************************************)
(* Notifications of the toolkit, delivered on the main thread.             *)
(***************************************************************************)
\* notify::gtk-icon-theme-name: the theme changes; each connected
\* _on_icon_theme_change runs
theme_name_changed(newTheme) ==
    /\ themed /\ hasDisplay
    /\ Free(Main)
    /\ budget.events > 0
    /\ newTheme # themeName
    /\ budget' = [budget EXCEPT !.events = @ - 1]
    /\ themeName' = newTheme
    /\ cache' = IF handlers.theme > 0 THEN _on_icon_theme_change(cache) ELSE cache
    /\ accessors' = IF handlers.theme > 0 THEN accessors \cup {Main} ELSE accessors
    /\ lastCall' = [Internal("theme_name_changed", Main) EXCEPT
                       !.dropped = Cardinality(DOMAIN cache \ DOMAIN cache')]
    /\ UNCHANGED <<configVars, syncCall, initCall, monitorScale, iconTheme, scale, handlers, nextPix, memo,
                   buildVars, reqs, idleQ>>
    /\ Track

\* monitor-added / monitor-removed: the primary monitor may now have another
\* scale factor; each connected _rebuild_scale_and_clear_cache runs
monitor_changed(newScale) ==
    /\ themed /\ hasDisplay
    /\ Free(Main)
    /\ budget.events > 0
    /\ budget' = [budget EXCEPT !.events = @ - 1]
    /\ monitorScale' = newScale
    /\ scale' = IF handlers.monitor > 0
                THEN _rebuild_scale_and_clear_cache(cache, hasDisplay, newScale).scale
                ELSE scale
    /\ cache' = IF handlers.monitor > 0
                THEN _rebuild_scale_and_clear_cache(cache, hasDisplay, newScale).cache
                ELSE cache
    /\ accessors' = IF handlers.monitor > 0 THEN accessors \cup {Main} ELSE accessors
    /\ lastCall' = [Internal("monitor_changed", Main) EXCEPT
                       !.dropped = Cardinality(DOMAIN cache \ DOMAIN cache')]
    /\ UNCHANGED <<configVars, syncCall, initCall, themeName, iconTheme, handlers, nextPix, memo,
                   buildVars, reqs, idleQ>>
    /\ Track

\* the scale factor of the primary monitor changes with no monitor added or
\* removed (a DPI setting): no handler of icons.py is connected to this
scale_factor_changed(newScale) ==
    /\ themed /\ hasDisplay
    /\ Free(Main)
    /\ budget.events > 0
    /\ newScale # monitorScale
    /\ budget' = [budget EXCEPT !.events = @ - 1]
    /\ monitorScale' = newScale
    /\ lastCall' = Internal("scale_factor_changed", Main)
    /\ UNCHANGED <<configVars, syncCall, initCall, themeName, iconVars, memo, buildVars, reqs, idleQ>>
    /\ Track

(***************************************************************************)
(* desktop_index.py: build_index_async.work                                *)
(***************************************************************************)
\* the loop over the descriptor files, one insertion at a time: the thread
\* loads and parses the file at its position and makes the first insertion
\* `_index[t] = {...}`, or makes the next insertion for that file; a file
\* that is skipped (it does not load, it lacks the group, a line of the
\* body raises) takes one step and inserts nothing.  `for t in tokens`
\* iterates a set of strings, whose order the code does not fix.
index_build_step(k) ==
    /\ idxThreads[k] <= Len(ScanOrder)
    /\ LET path == ScanOrder[idxThreads[k]]
           toks == IF idxPending[k] = {} THEN TokensOf(path) ELSE idxPending[k]
       IN  IF toks = {}
           THEN /\ index' = index
                /\ idxThreads' = [idxThreads EXCEPT ![k] = @ + 1]
                /\ idxPending' = idxPending
           ELSE \E t \in toks :
                   /\ index' = IndexInsertAll(index, {t}, RecordOf(path))
                   /\ idxThreads' = [idxThreads EXCEPT
                                        ![k] = IF toks = {t} THEN @ + 1 ELSE @]
                   /\ idxPending' = [idxPending EXCEPT ![k] = toks \ {t}]
    /\ lastCall' = Internal("index_build", "idxbuild")
    /\ UNCHANGED <<configVars, syncCall, initCall, themeName, monitorScale, iconVars, memo, idxReady,
                   pkgMap, pkgReady, pkgThreads, reqs, idleQ, budget>>
    /\ Track

\* finally: _ready.set()
index_build_finish(k) ==
    /\ idxThreads[k] = Len(ScanOrder) + 1
    /\ idxReady' = idxReady + 1
    /\ idxThreads' = [idxThreads EXCEPT ![k] = @ + 1]
    /\ lastCall' = Internal("index_ready", "idxbuild")
    /\ UNCHANGED <<configVars, syncCall, initCall, themeName, monitorScale, iconVars, memo, index,
                   idxPending, pkgMap, pkgReady, pkgThreads, reqs, idleQ, budget>>
    /\ Track

(***************************************************************************)
(* pkg_desktop_map.py: build_pkg_map_async.work                            *)
(***************************************************************************)
RECURSIVE SeqToSet(_)
SeqToSet(q) == IF q = <<>> THEN {} ELSE {Head(q)} \cup SeqToSet(Tail(q))

\* pkgs_txt = _run(["pkg", "query", "%n"]); no output: return (and set ready)
pkg_build_query(k, outcome) ==
    /\ pkgThreads[k].pc = "query"
    /\ IF ~Returns(outcome)
       THEN /\ pkgThreads' = [pkgThreads EXCEPT ![k].pc = "hung", ![k].hung = TRUE]
            /\ pkgReady' = pkgReady
       ELSE LET pkgs_txt == _run(PkgQueryOutput, outcome)
            IN  IF pkgs_txt = <<>>
                THEN /\ pkgThreads' = [pkgThreads EXCEPT ![k].pc = "done"]
                     /\ pkgReady' = pkgReady + 1
                ELSE /\ pkgThreads' = [pkgThreads EXCEPT
                                          ![k].pc = "collect",
                                          ![k].names = SeqToSet(PkgNames(pkgs_txt)),
                                          ![k].pending = SeqToSet(PkgNames(pkgs_txt))]
                     /\ pkgReady' = pkgReady
    /\ lastCall' = [Internal("pkg_query", "pkgbuild") EXCEPT !.cmd = outcome]
    /\ UNCHANGED <<configVars, syncCall, initCall, themeName, monitorScale, iconVars, memo, index,
                   idxReady, idxThreads, idxPending, pkgMap, reqs, idleQ, budget>>
    /\ Track

\* one future completes (as_completed order): its package's result is
\* inserted if it has a desktop path; a worker whose command never exits
\* never completes
pkg_build_collect(k, pkg, outcome) ==
    /\ pkgThreads[k].pc = "collect"
    /\ pkg \in pkgThreads[k].pending
    /\ pkgMap' = IF Returns(outcome)
                 THEN PkgMapInsert(pkgMap, pkg,
                                   _process_package(_run(PkgInfoOutput(pkg), outcome)))
                 ELSE pkgMap
    /\ pkgThreads' = [pkgThreads EXCEPT
                         ![k].pending = @ \ {pkg},
                         ![k].failed = IF Returns(outcome)
                                          /\ _run(PkgInfoOutput(pkg), outcome) # <<>>
                                       THEN @ ELSE @ \cup {pkg},
                         ![k].hung = @ \/ ~Returns(outcome)]
    /\ lastCall' = [Internal("pkg_collect", "pkgbuild") EXCEPT
                       !.pkg = pkg, !.cmd = outcome]
    /\ UNCHANGED <<configVars, syncCall, initCall, themeName, monitorScale, iconVars, memo, index,
                   idxReady, idxThreads, idxPending, pkgReady, reqs, idleQ, budget>>
    /\ Track

\* all futures done; finally: _ready.set()
pkg_build_finish(k) ==
    /\ pkgThreads[k].pc = "collect"
    /\ pkgThreads[k].pending = {}
    /\ ~pkgThreads[k].hung
    /\ pkgThreads' = [pkgThreads EXCEPT ![k].pc = "done"]
    /\ pkgReady' = pkgReady + 1
    /\ lastCall' = Internal("pkg_ready", "pkgbuild")
    /\ UNCHANGED <<configVars, syncCall, initCall, themeName, monitorScale, iconVars, memo, index,
                   idxReady, idxThreads, idxPending, pkgMap, reqs, idleQ, budget>>
    /\ Track

(***************************************************************************)
(* The system.                                                             *)
(***************************************************************************)
Next ==
    \/ \E t \in Callers : init_icon_runtime(t)
    \/ init_icon_runtime_step
    \/ \E t \in Callers : init_icons_runtime_legacy(t)
    \/ \E t \in Callers, n \in DirectIconNames, z \in Sizes :
          _load_icon_pixbuf_main(t, n, z)
    \/ \E t \in Callers, p \in Requested, z \in Sizes :
          resolve_label_and_icon_sync(t, p, z)
    \/ resolve_label_and_icon_sync_step
    \/ \E t \in Callers, p \in Requested, z \in Sizes : sync_legacy(t, p, z)
    \/ \E t \in Callers, p \in Requested, z \in Sizes, c \in budget.cbrets :
          themed_icon_and_label_async(t, p, z, c)
    \/ \E i \in DOMAIN reqs : async_worker(i)
    \/ main_thread_finish
    \/ \E i \in DOMAIN reqs : legacy_worker(i)
    \/ legacy_idle
    \/ \E th \in Themes : theme_name_changed(th)
    \/ \E sc \in Scales : monitor_changed(sc)
    \/ \E sc \in Scales : scale_factor_changed(sc)
    \/ \E k \in DOMAIN idxThreads : index_build_step(k)
    \/ \E k \in DOMAIN idxThreads : index_build_finish(k)
    \/ \E k \in DOMAIN pkgThreads, o \in budget.cmds : pkg_build_query(k, o)
    \/ \E k \in DOMAIN pkgThreads, o \in budget.cmds :
          \E p \in pkgThreads[k].pending : pkg_build_collect(k, p, o)
    \/ \E k \in DOMAIN pkgThreads : pkg_build_finish(k)

Spec == Init /\ [][Next]_vars

\* a build thread that can take its next step takes it: the operating system
\* schedules every started thread.  How a command ends is the command's
\* choice.
BuildFairness ==
    \A k \in 1..MaxInits :
        /\ WF_vars(k \in DOMAIN idxThreads /\ index_build_step(k))
        /\ WF_vars(k \in DOMAIN idxThreads /\ index_build_finish(k))
        /\ WF_vars(k \in DOMAIN pkgThreads
                      /\ \E o \in budget.cmds : pkg_build_query(k, o))
        /\ WF_vars(k \in DOMAIN pkgThreads
                      /\ \E o \in budget.cmds :
                            \E p \in pkgThreads[k].pending : pkg_build_collect(k, p, o))
        /\ WF_vars(k \in DOMAIN pkgThreads /\ pkg_build_finish(k))

\* the program with its build threads scheduled fairly
FairSpec == Spec /\ BuildFairness

(***************************************************************************)
(* Properties of the label / icon-name determination.                      *)
(***************************************************************************)
\* the last step ran _resolve_label_and_icon_name_worker (sync or async)
Determined ==
    /\ themed
    /\ \/ lastCall.op = "resolve_label_and_icon_sync" /\ lastCall.inner # "RuntimeError"
       \/ lastCall.op = "worker"

\* C1: for every package with an entry in the curated table the
\* determination returns that entry's name as label and that entry's icon as
\* icon name, whatever the package map and the index hold.
CuratedEntryReturned ==
    (Determined /\ lastCall.pkg \in DOMAIN curated)
        => /\ lastCall.label = curated[lastCall.pkg].name
           /\ lastCall.icon = curated[lastCall.pkg].icon

\* C1 witness: vlc resolved to its curated pair while the index build was
\* scanning and the package-map build had put an entry into the map
CuratedWhileBuilding ==
    /\ Determined
    /\ lastCall.pkg = <<"vlc">>
    /\ lastCall.label = <<"VLC">>
    /\ lastCall.icon = <<"vlc">>
    /\ lastCall.label # lastCall.pkg
    /\ pkgMap # EmptyDict /\ pkgReady = 0
    /\ idxThreads # <<>> /\ idxReady = 0

\* the image the active theme gives for the fallback icon name, if any
FallbackInTheme == ICON_FALLBACK \in ThemeIcons(themeName)

\* C2: a package with no curated entry, no package-map entry and no index
\* record under its own name gets its own name as label and no icon name;
\* the image returned for a missing icon name is the theme's image of
\* package-x-generic at the requested size and the stored scale, or none
\* when the theme has no such icon.
UnknownPackageFallsBack ==
    /\ (/\ Determined
        /\ lastCall.pkg \notin DOMAIN curated
        /\ lastCall.pkg \notin DOMAIN pkgMap
        /\ lastCall.pkg \notin DOMAIN index)
           => lastCall.label = lastCall.pkg /\ lastCall.icon = None
    /\ (/\ themed
        /\ lastCall.op \in {"resolve_label_and_icon_sync", "main_thread_finish"}
        /\ lastCall.inner = "ok"
        /\ lastCall.icon = None)
           => IF FallbackInTheme
              THEN /\ lastCall.pix # NonePix
                   /\ lastCall.pix.theme = themeName
                   /\ lastCall.pix.name = ICON_FALLBACK
                   /\ lastCall.pix.size = lastCall.size
                   /\ lastCall.pix.scale = scale
              ELSE lastCall.pix = NonePix

RECURSIVE FirstTruthy(_)
\* the first non-empty value of a list of candidate values, None without one
FirstTruthy(values) ==
    IF values = <<>> THEN None
    ELSE IF Truthy(Head(values)) THEN Head(values)
    ELSE FirstTruthy(Tail(values))

\* the curated entry has a name and an icon
Complete(entry) == Truthy(entry.name) /\ Truthy(entry.icon)

\* step 3 of the determination d ran: both guess functions were called with
\* the package name, so both memos have it
Step3Ran(d) == d.pkg \in DOMAIN memo.fn /\ d.pkg \in DOMAIN memo.ic

CallbackAtMostOnce ==
    \A i \in DOMAIN reqs :
        /\ reqs[i].calls <= 1
        /\ reqs[i].cbThreads \subseteq {Main}

\* C5: every thread that has read or written the icon cache or the stored
\* scale factor is the main thread, in every interleaving of builds,
\* asynchronous requests, synchronous resolves and events.
OnlyMainTouchesCache == accessors \subseteq {Main}

\* C5 witness: an asynchronous request was delivered and cached its image
\* while the index build thread was scanning the descriptor files
AsyncDeliveredDuringBuild ==
    /\ \E i \in DOMAIN reqs : reqs[i].pc = "done" /\ reqs[i].calls = 1
    /\ cache # EmptyDict
    /\ idxThreads # <<>>
    /\ idxThreads[1] > 1 /\ idxThreads[1] <= Len(ScanOrder)
    /\ idxReady = 0
    /\ accessors = {Main}

\* the three functions of icons.py that assert the main thread
MainOnlyOps ==
    {"init_icon_runtime", "resolve_label_and_icon_sync", "_load_icon_pixbuf_main"}

\* C6: a call of init_icon_runtime, resolve_label_and_icon_sync or
\* _load_icon_pixbuf_main from another thread than the main one raises and
\* leaves the cache, the stored scale, the handlers, the index and the
\* package map as they were, and starts no build.
OffThreadCallRejected ==
    [][(lastCall'.op \in MainOnlyOps /\ lastCall'.thread # Main)
        => /\ lastCall'.inner = "RuntimeError"
           /\ UNCHANGED <<cache, scale, handlers, iconTheme, index, pkgMap,
                          idxThreads, pkgThreads, idxReady, pkgReady>>]_vars

\* C6 witness: a synchronous resolve from the other thread was rejected while
\* the runtime was initialised and the cache held an image
OffThreadCallSeen ==
    /\ lastCall.op = "resolve_label_and_icon_sync"
    /\ lastCall.thread # Main
    /\ lastCall.inner = "RuntimeError"
    /\ handlers.theme > 0
    /\ cache # EmptyDict

\* C7: a call of themed_icon_and_label_sync, get_icon_for_package or
\* get_friendly_label from another thread than the main one gives its caller
\* an error, not a normal result.
AffinityViolationSurfaces ==
    (/\ themed
     /\ lastCall.op = "resolve_label_and_icon_sync"
     /\ lastCall.thread # Main)
        => \A op \in SyncOps : ReturnOf(op, lastCall).outcome = "RuntimeError"

(***************************************************************************)
(* Properties of the icon cache.                                           *)
(***************************************************************************)
\* the step is a synchronous resolve that returns, for the package and the
\* size of the previous one, with no theme-name notification and no scale
\* notification in between
SecondResolve ==
    /\ prev.valid
    /\ lastCall'.op = "resolve_label_and_icon_sync"
    /\ lastCall'.inner = "ok"
    /\ lastCall'.pkg = prev.pkg
    /\ lastCall'.size = prev.size

\* the step returns the label and the very image of the previous resolve,
\* and makes no theme lookup
SameAsFirstResolve ==
    /\ lastCall'.label = prev.label
    /\ lastCall'.pix = prev.pix
    /\ lastCall'.hit
    /\ lastCall'.lookups = 0

\* C8: of two synchronous resolves of the same package and size with no
\* theme-name change and no scale change between them, the second returns
\* the label and the image object of the first and makes no theme lookup.
SecondResolveIdentical ==
    [][SecondResolve => SameAsFirstResolve]_vars

\* C9: a theme-name change or a scale-factor change (a monitor added or
\* removed, or the scale factor of the monitor changed) leaves the cache
\* empty, every entry removed; so no image in the cache was loaded from
\* another theme than the active one, and a key cached before the event is
\* looked up afresh.
CacheEmptyAfterEvent ==
    /\ [][lastCall'.op \in ThemeOrScaleEvents => cache' = EmptyDict]_vars
    /\ [](\A k \in DOMAIN cache : cache[k] # NonePix => cache[k].theme = themeName)

\* the last step returned an image from _load_icon_pixbuf_main
Loaded ==
    /\ lastCall.op \in {"resolve_label_and_icon_sync", "main_thread_finish",
                        "_load_icon_pixbuf_main"}
    /\ lastCall.inner = "ok"
    /\ lastCall.pix # NonePix

\* the image pix held under key k is the one load_icon(package-x-generic,
\* size, 0) gave, for scale 1, after the load of the icon found for k raised
LastResort(pix, k) ==
    /\ pix.name = ICON_FALLBACK
    /\ pix.scale = 1
    /\ \E name \in {k[1], ICON_FALLBACK} : LoadRaises(pix.theme, name, k[3])

\* C10: every key in the cache carries the stored scale factor, every cached
\* image was loaded for its key's size and, but for the last-resort load
\* after an icon file could not be read, for its key's scale; an image
\* returned was loaded for the size requested and, with the same exception,
\* the stored scale, and is the entry under the name and size requested and
\* the stored scale; two keys never hold the same image object: entries are
\* shared neither across sizes nor across scales.
KeysCarryStoredScale ==
    /\ \A k \in DOMAIN cache :
          /\ k[3] = scale
          /\ cache[k] # NonePix
                => /\ cache[k].size = k[2]
                   /\ cache[k].scale = k[3] \/ LastResort(cache[k], k)
    /\ \A k1, k2 \in DOMAIN cache :
          (k1 # k2 /\ cache[k1] # NonePix /\ cache[k2] # NonePix)
              => cache[k1].id # cache[k2].id
    /\ Loaded
          => LET k == CacheKey(lastCall.icon, lastCall.size, scale)
             IN  /\ lastCall.pix.size = lastCall.size
                 /\ lastCall.pix.scale = scale \/ LastResort(lastCall.pix, k)
                 /\ k \in DOMAIN cache
                 /\ cache[k] = lastCall.pix

\* C10 witness: after a monitor change to scale 2 dropped what was cached
\* under scale 1, the same icon is cached under two sizes as two images
TwoSizesAfterScaleChange ==
    /\ scale = 2
    /\ nextPix = MaxLoads
    /\ \E k1, k2 \in DOMAIN cache :
          /\ k1[1] = k2[1] /\ k1[2] # k2[2] /\ k1[3] = k2[3]
          /\ cache[k1] # NonePix /\ cache[k2] # NonePix
          /\ cache[k1].id # cache[k2].id

(***************************************************************************)
(* Properties of the desktop-entry index and of the package map.           *)
(***************************************************************************)
\* the tokens asked of best_guess so far, and those the index holds
KnownTokens == DOMAIN memo.bg \cup DOMAIN memo.fn \cup DOMAIN memo.ic \cup DOMAIN index

Installed == SeqToSet(PkgNames(PkgQueryOutput))

\* the first line of the package's file listing that ends in .desktop,
\* stripped; None when the listing has no such line
ListedDesktopPath(pkg) ==
    LET lines == SplitLines(PkgInfoOutput(pkg))
        hits == {i \in 1..Len(lines) : EndsWith(Strip(lines[i]), DesktopExt)}
    IN  IF hits = {} THEN None
        ELSE Strip(lines[CHOOSE i \in hits : \A j \in hits : i <= j])

\* the packages whose listing a build thread has got and looked through
Collected(th) == (th.names \ th.pending) \ th.failed

\* C12: the package map holds entries only for installed packages whose
\* listing was got and has a line ending in .desktop, each mapped to the
\* first such line; when a build has finished, every such package of it has
\* its entry, and a package without such a line, with an empty listing or
\* with a failed worker has none from it.
PkgMapExact ==
    /\ \A p \in DOMAIN pkgMap :
          /\ p \in Installed
          /\ Truthy(pkgMap[p])
          /\ pkgMap[p] = ListedDesktopPath(p)
          /\ \E k \in DOMAIN pkgThreads : p \in Collected(pkgThreads[k])
    /\ \A k \in DOMAIN pkgThreads :
          pkgThreads[k].pc = "done" =>
              \A p \in Collected(pkgThreads[k]) :
                  Truthy(ListedDesktopPath(p)) => p \in DOMAIN pkgMap

\* C12 witness: a build finished with every listing got: foo, whose listing
\* has two .desktop lines, is mapped to the first; htop, with none, has no
\* entry
PkgMapBuilt ==
    /\ Len(pkgThreads) = 1
    /\ pkgThreads[1].pc = "done"
    /\ pkgThreads[1].names = Installed
    /\ pkgThreads[1].failed = {}
    /\ DOMAIN pkgMap = {<<"foo">>}
    /\ pkgMap[<<"foo">>] = <<"/usr/local/share/applications", "/", "foo-app", ".desktop">>
    /\ <<"htop">> \in Installed

\* the external command of the step did not end with exit status 0
CommandFailed == lastCall'.cmd \in CmdOutcomes \ {"ok"}

\* C13: a failed package-database query counts as empty output: a failed
\* `pkg info -l` adds no entry to the map, a failed `pkg query` gives the
\* build no package names (so an empty map), and desktop_for_pkg answers a
\* path of the map or nothing.
FailedQueryCountsAsEmpty ==
    /\ [][(lastCall'.op = "pkg_collect" /\ CommandFailed) => pkgMap' = pkgMap]_vars
    /\ [][(lastCall'.op = "pkg_query" /\ CommandFailed)
             => /\ pkgMap' = pkgMap
                /\ \A k \in DOMAIN pkgThreads :
                      pkgThreads'[k].names = pkgThreads[k].names]_vars
    /\ [](\A p \in Packages :
             \/ desktop_for_pkg(pkgMap, p) = None
             \/ p \in DOMAIN pkgMap /\ desktop_for_pkg(pkgMap, p) = pkgMap[p])

\* C14: once a build has been started its readiness signal is eventually
\* set, however its file parses and external queries end.
BuildsBecomeReady ==
    /\ (Len(idxThreads) >= 1) ~> (idxReady >= 1)
    /\ (Len(pkgThreads) >= 1) ~> (pkgReady >= 1)

(***************************************************************************)
(* Properties of init_icon_runtime and of the build passes                 *)
(***************************************************************************)
\* C15: init is idempotent: however often init_icon_runtime has run, each
\* notification has at most one handler, each index at most one build pass
\* and each readiness signal is set at most once.
InitIsIdempotent ==
    /\ handlers.theme <= 1
    /\ handlers.monitor <= 1
    /\ Len(idxThreads) <= 1
    /\ Len(pkgThreads) <= 1
    /\ idxReady <= 1
    /\ pkgReady <= 1

\* C16: each index is read-only once its readiness signal is set: from then
\* on no step changes its contents or sets the signal again, and no step
\* ever deletes an entry.
IndexesFrozenOnceReady ==
    [][ /\ idxReady > 0 => (index' = index /\ idxReady' = idxReady)
        /\ pkgReady > 0 => (pkgMap' = pkgMap /\ pkgReady' = pkgReady)
        /\ DOMAIN index \subseteq DOMAIN index'
        /\ DOMAIN pkgMap \subseteq DOMAIN pkgMap' ]_vars

(***************************************************************************)
(* Properties of the determination when a collaborator raises              *)
(***************************************************************************)
\* C17: when a call of the package map's query or of the index's lookup
\* raises, the determination still returns a pair with a label: the step
\* whose call raised contributes nothing, the steps after it still run
\* (after an exception in step 2 the guesses of step 3 are made), and label
\* and icon name are the first values of the sources that are left; the
\* asynchronous worker still queues its main-thread step, and that step
\* still calls the callback, once, with this label.
ExceptionsCountAsNoContribution ==
    /\ (Determined /\ lastCall.det.raised # {})
          => LET d == lastCall.det
                 cur == CuratedGet(curated, lastCall.pkg)
             IN  /\ d.error = "ok"
                 /\ d.pc = "return"
                 /\ Truthy(lastCall.label)
                 /\ "desktop_for_pkg" \in d.raised => d.path = None /\ d.hit = NoHit
                 /\ "hit" \in d.raised => d.hit = NoHit
                 /\ "name" \in d.raised => d.name_guess = None
                 /\ "icon" \in d.raised => d.icon_guess = None
                 /\ (d.raised \cap {"desktop_for_pkg", "hit"} # {}) => Step3Ran(d)
                 /\ lastCall.label =
                      FirstTruthy(<<cur.name, d.hit.name, d.name_guess, lastCall.pkg>>)
                 /\ lastCall.icon = FirstTruthy(<<cur.icon, d.hit.icon, d.icon_guess>>)
    /\ (themed /\ lastCall.op = "worker" /\ lastCall.det.raised # {})
          => /\ idleQ # <<>>
             /\ reqs[idleQ[Len(idleQ)]].pc = "queued"
             /\ reqs[idleQ[Len(idleQ)]].det = lastCall.det
             /\ reqs[idleQ[Len(idleQ)]].label = lastCall.label
    /\ (/\ themed
        /\ lastCall.op = "main_thread_finish"
        /\ lastCall.inner = "ok"
        /\ lastCall.det.raised # {})
          => \E i \in DOMAIN reqs :
                /\ reqs[i].pc = "done"
                /\ reqs[i].calls = 1
                /\ reqs[i].det = lastCall.det
                /\ reqs[i].label = lastCall.label
                /\ Truthy(reqs[i].label)

\* C17 witness: foo has a package-map entry, the call of desktop_for_pkg
\* raised, the asynchronous determination went on to the guesses of step 3
\* and returned the package name, and the callback was delivered
CallbackAfterMapperException ==
    /\ themed
    /\ lastCall.op = "main_thread_finish"
    /\ lastCall.inner = "ok"
    /\ lastCall.pkg = <<"foo">>
    /\ <<"foo">> \in DOMAIN pkgMap
    /\ lastCall.det.raised = {"desktop_for_pkg"}
    /\ lastCall.det.path = None
    /\ Step3Ran(lastCall.det)
    /\ lastCall.label = <<"foo">>
    /\ \E i \in DOMAIN reqs :
          reqs[i].calls = 1 /\ reqs[i].pc = "done" /\ reqs[i].label = lastCall.label

(***************************************************************************)
(* Properties of the environment override                                  *)
(***************************************************************************)
\* C18: with SOFTWARE_STATION_DISABLE_PKG_MAP set to "1" no package-map
\* build is ever started, no package command is run and the package map
\* stays empty; init still starts the index build, and a determination
\* skips source (2), still makes the guesses of source (3) when the curated
\* entry leaves a field open, and gives the first value of the curated
\* entry, the guess and the package name (label only).
OverrideDisablesPkgMap ==
    disablePkgMap =>
        /\ pkgThreads = <<>>
        /\ pkgMap = EmptyDict
        /\ pkgReady = 0
        /\ lastCall.cmd = "none"
        /\ lastCall.op \notin {"pkg_query", "pkg_collect", "pkg_ready"}
        /\ (lastCall.op = "init_icon_runtime" /\ lastCall.inner = "ok" /\ mods.index)
              => Len(idxThreads) >= 1
        /\ Determined =>
              LET d == lastCall.det
                  cur == CuratedGet(curated, lastCall.pkg)
              IN  /\ d.pkg = lastCall.pkg
                  /\ d.path = None
                  /\ d.hit = NoHit
                  /\ ~Complete(cur) => Step3Ran(d)
                  /\ (Truthy(d.name_guess) \/ Truthy(d.icon_guess))
                        => d.pkg \in DOMAIN index
                  /\ lastCall.label = FirstTruthy(<<cur.name, d.name_guess, lastCall.pkg>>)
                  /\ lastCall.icon = FirstTruthy(<<cur.icon, d.icon_guess>>)

\* C18 witness: with the override set and the package-map module imported,
\* the index build has run to its end, no package-map build exists, and foo
\* was resolved through the guesses of source (3) to its package name
ResolvedWithoutPkgMap ==
    /\ disablePkgMap
    /\ mods.pkgmap
    /\ idxThreads # <<>>
    /\ idxReady >= 1
    /\ pkgThreads = <<>>
    /\ Determined
    /\ lastCall.pkg = <<"foo">>
    /\ lastCall.det.path = None
    /\ Step3Ran(lastCall.det)
    /\ lastCall.label = <<"foo">>
    /\ lastCall.icon = None

(***************************************************************************)
(* Properties of the pixbuf cache: absent results                          *)
(***************************************************************************)
\* the last step ran _load_icon_pixbuf_main to its end
LoadReturned ==
    /\ lastCall'.op \in {"resolve_label_and_icon_sync", "main_thread_finish",
                         "_load_icon_pixbuf_main"}
    /\ lastCall'.inner = "ok"

\* C19: a load that returns leaves its result, an image or none, in the
\* cache under (icon name or package-x-generic, size, stored scale); when
\* the key was there already it returns the cached value, be it none,
\* without any theme lookup; and a step that is not an invalidation neither
\* removes nor replaces an entry, so a key is looked up in the theme at most
\* once between two invalidations.
AbsentResultsCached ==
    [][ /\ LoadReturned =>
              LET key == CacheKey(lastCall'.icon, lastCall'.size, scale)
              IN  /\ key \in DOMAIN cache'
                  /\ cache'[key] = lastCall'.pix
                  /\ IF key \in DOMAIN cache
                     THEN /\ lastCall'.hit
                          /\ lastCall'.lookups = 0
                          /\ lastCall'.pix = cache[key]
                     ELSE /\ ~lastCall'.hit
                          /\ lastCall'.lookups >= 1
        /\ \/ \A k \in DOMAIN cache : k \in DOMAIN cache' /\ cache'[k] = cache[k]
           \/ lastCall'.op \in Invalidating /\ cache' = EmptyDict ]_vars

\* C19 witness: a load was answered from the cache with no image, the
\* absent result of an earlier lookup in a theme without the icon and
\* without package-x-generic
AbsentServedFromCache ==
    /\ lastCall.op \in {"resolve_label_and_icon_sync", "main_thread_finish",
                        "_load_icon_pixbuf_main"}
    /\ lastCall.inner = "ok"
    /\ lastCall.hit
    /\ lastCall.lookups = 0
    /\ lastCall.pix = NonePix
    /\ CacheKey(lastCall.icon, lastCall.size, scale) \in DOMAIN cache
    /\ cache[CacheKey(lastCall.icon, lastCall.size, scale)] = NonePix
    /\ ~FallbackInTheme

(***************************************************************************)
(* Properties of the two change handlers                                   *)
(***************************************************************************)
\* the notifications icons.py connects a handler to
CacheEvents == {"theme_name_changed", "monitor_changed"}

\* C20: once init has connected the handlers, right after a theme-name
\* notification and right after a monitor notification the cache is empty
\* and the stored scale is the display's scale factor of that moment.
HandlersInvalidateAndRescale ==
    [][(lastCall'.op \in CacheEvents /\ handlers.theme > 0 /\ handlers.monitor > 0)
          => /\ cache' = EmptyDict
             /\ scale' = _compute_scale_factor(hasDisplay, monitorScale')]_vars

(***************************************************************************)
(* Properties of the desktop-entry index build                             *)
(***************************************************************************)
\* the three directories by kind
UserLocal == <<"~/.local/share/applications">>
SystemLocal == <<"/usr/local/share/applications">>
SystemWide == <<"/usr/share/applications">>

\* every started index build has set its readiness signal
IndexBuilt == idxThreads # <<>> /\ idxReady = Len(idxThreads)

\* the descriptor files of the directories dirs, directory after directory
RECURSIVE FilesIn(_)
FilesIn(dirs) ==
    IF dirs = <<>> THEN <<>>
    ELSE (IF IsDir(Head(dirs)) THEN Glob(Head(dirs)) ELSE <<>>) \o FilesIn(Tail(dirs))

\* a descriptor file that does not load, or lacks the group Desktop Entry
Invalid(path) ==
    ~KeyFile(path).loads \/ "Desktop Entry" \notin KeyFile(path).groups

\* the descriptor files the build finds in the directories that exist: those
\* glob matches
Descriptors == {FilesIn(_DESKTOP_DIRS)[i] : i \in DOMAIN FilesIn(_DESKTOP_DIRS)}

\* ... those of them that load and have the group Desktop Entry
ValidDescriptors == {d \in Descriptors : ~Invalid(d)}

RECURSIVE FirstPresent(_, _)
\* the value of the first of the keys cands that the file has, None without one
FirstPresent(keys, cands) ==
    IF cands = <<>> THEN None
    ELSE IF Head(cands) \in DOMAIN keys THEN keys[Head(cands)]
    ELSE FirstPresent(keys, Tail(cands))

\* the name keys of a descriptor in the order of preference for the locale
NameKeys ==
    [i \in 1..Len(Probes(Locale)) |-> LocKey(Probes(Locale)[i])] \o <<K("Name")>>

\* what a descriptor file says of itself: its localized name, its icon
\* hint, its base filename
Described(path) ==
    [name |-> FirstPresent(KeyFile(path).keys, NameKeys),
     icon |-> FirstPresent(KeyFile(path).keys, <<K("Icon")>>),
     desktop_id |-> Basename(path)]

\* the directories in the order the claim gives
ClaimedOrder == <<UserLocal, SystemLocal, SystemWide>>

\* the places in ClaimedOrder of the directories with a valid descriptor id
Having(id) ==
    {i \in DOMAIN ClaimedOrder : PathJoin(ClaimedOrder[i], id) \in ValidDescriptors}

\* C21: the directories are scanned user-local, system-local, system-wide,
\* and after the build a token given by descriptors of several directories
\* (here: a base filename present in several directories) holds the record
\* of the descriptor in the directory last in that order.
SystemWideScannedLast ==
    IndexBuilt =>
        \A id \in {Basename(d) : d \in ValidDescriptors} :
            Cardinality(Having(id)) >= 2
                => LET last == CHOOSE i \in Having(id) : \A j \in Having(id) : j <= i
                   IN  /\ id \in DOMAIN index
                       /\ index[id] = Described(PathJoin(ClaimedOrder[last], id))

\* C22: no record of the index comes from a file that does not load or
\* lacks the primary group, and after the build every other descriptor file
\* the build finds in an existing directory is in the index under its base
\* filename.
EveryValidFileIndexed ==
    LET ids == {Basename(path) : path \in ValidDescriptors}
    IN  /\ \A t \in DOMAIN index : index[t].desktop_id \in ids
        /\ IndexBuilt =>
              \A id \in ids : id \in DOMAIN index /\ index[id].desktop_id = id

(***************************************************************************)
(* Properties of the lookups while the builds run                          *)
(***************************************************************************)
\* the tokens and package names a lookup may be made with
LookupTokens == KnownTokens \cup Packages
LookupPackages == Packages \cup Installed

====
